---- MODULE Spec2Model ----
(***************************************************************************)
(* Model of backend/app/scrapers/lsf_scraper.py (class LsfScraper):        *)
(* the login orchestration against the LSF portal and its SSO provider,    *)
(* and the extraction of the current semester's classes from the markup.   *)
(*                                                                         *)
(* Texts are sequences of Unicode code points, so that normalisation,      *)
(* regular-expression search and substring tests are computed and not      *)
(* assumed.  A document is the sequence of its nodes in document order,    *)
(* which is the order BeautifulSoup's find_all / find_all_next yield them. *)
(***************************************************************************)
EXTENDS Integers, Sequences, FiniteSets, TLC

(***************************************************************************)
(* Bounds of the model.                                                    *)
(***************************************************************************)
MaxDocLen == 6
MaxLinks == 3
MaxLoginCalls == 2

(***************************************************************************)
(* Characters and texts.                                                   *)
(***************************************************************************)
\* the ASCII characters U+0020 to U+005F and U+0061 to U+007E, in code
\* point order
Printable == <<" ", "!", "\"", "#", "$", "%", "&", "'", "(", ")", "*", "+", ",",
               "-", ".", "/", "0", "1", "2", "3", "4", "5", "6", "7", "8", "9",
               ":", ";", "<", "=", ">", "?", "@", "A", "B", "C", "D", "E", "F",
               "G", "H", "I", "J", "K", "L", "M", "N", "O", "P", "Q", "R", "S",
               "T", "U", "V", "W", "X", "Y", "Z", "[", "\\", "]", "^", "_">>
PrintableLower == <<"a", "b", "c", "d", "e", "f", "g", "h", "i", "j", "k", "l", "m",
                    "n", "o", "p", "q", "r", "s", "t", "u", "v", "w", "x", "y", "z",
                    "{", "|", "}", "~">>

\* ord(c) for the characters that string literals are written with
ord == [c \in {Printable[i] : i \in 1..Len(Printable)}
                \cup {PrintableLower[i] : i \in 1..Len(PrintableLower)}
                \cup {"\t", "\n", "\f", "\r"} |->
           IF c = "\t" THEN 9
           ELSE IF c = "\n" THEN 10
           ELSE IF c = "\f" THEN 12
           ELSE IF c = "\r" THEN 13
           ELSE IF \E i \in 1..Len(Printable) : Printable[i] = c
                THEN 31 + CHOOSE i \in 1..Len(Printable) : Printable[i] = c
                ELSE 96 + CHOOSE i \in 1..Len(PrintableLower) : PrintableLower[i] = c]

\* a str given character by character, as the sequence of its code points
Text(s) == [i \in 1..Len(s) |-> ord[s[i]]]

\* the characters that \s matches in a str pattern and that str.strip()
\* removes: those for which str.isspace() holds
WhitespaceChars ==
    (9..13) \cup (28..32) \cup {133, 160, 5760} \cup (8192..8202)
        \cup {8232, 8233, 8239, 8287, 12288}

\* the code points of the digit zero of every decimal number system
DigitZeros == {
    48, 1632, 1776, 1984, 2406, 2534, 2662, 2790, 2918, 3046,
    3174, 3302, 3430, 3558, 3664, 3792, 3872, 4160, 4240, 6112,
    6160, 6470, 6608, 6784, 6800, 6992, 7088, 7232, 7248, 42528,
    43216, 43264, 43472, 43504, 43600, 44016, 65296, 66720, 68912, 69734,
    69872, 69942, 70096, 70384, 70736, 70864, 71248, 71360, 71472, 71904,
    72016, 72784, 73040, 73120, 92768, 92864, 93008, 120782, 120792, 120802,
    120812, 120822, 123200, 123632, 125264, 130032 }

\* the characters that \d matches in a str pattern: every decimal digit
DigitChars == UNION {z..(z + 9) : z \in DigitZeros}

\* the simple lower-case mapping: <<first, last, step, offset>> stands for
\* the characters first, first + step, ..., last, each mapped to itself + offset
LowerPieces == {
    <<65, 90, 1, 32>>, <<192, 214, 1, 32>>, <<216, 222, 1, 32>>,
    <<256, 302, 2, 1>>, <<304, 304, 1, -199>>, <<306, 310, 2, 1>>,
    <<313, 327, 2, 1>>, <<330, 374, 2, 1>>, <<376, 376, 1, -121>>,
    <<377, 381, 2, 1>>, <<385, 385, 1, 210>>, <<386, 388, 2, 1>>,
    <<390, 390, 1, 206>>, <<391, 391, 1, 1>>, <<393, 394, 1, 205>>,
    <<395, 395, 1, 1>>, <<398, 398, 1, 79>>, <<399, 399, 1, 202>>,
    <<400, 400, 1, 203>>, <<401, 401, 1, 1>>, <<403, 403, 1, 205>>,
    <<404, 404, 1, 207>>, <<406, 406, 1, 211>>, <<407, 407, 1, 209>>,
    <<408, 408, 1, 1>>, <<412, 412, 1, 211>>, <<413, 413, 1, 213>>,
    <<415, 415, 1, 214>>, <<416, 420, 2, 1>>, <<422, 422, 1, 218>>,
    <<423, 423, 1, 1>>, <<425, 425, 1, 218>>, <<428, 428, 1, 1>>,
    <<430, 430, 1, 218>>, <<431, 431, 1, 1>>, <<433, 434, 1, 217>>,
    <<435, 437, 2, 1>>, <<439, 439, 1, 219>>, <<440, 440, 1, 1>>,
    <<444, 444, 1, 1>>, <<452, 452, 1, 2>>, <<453, 453, 1, 1>>,
    <<455, 455, 1, 2>>, <<456, 456, 1, 1>>, <<458, 458, 1, 2>>,
    <<459, 475, 2, 1>>, <<478, 494, 2, 1>>, <<497, 497, 1, 2>>,
    <<498, 500, 2, 1>>, <<502, 502, 1, -97>>, <<503, 503, 1, -56>>,
    <<504, 542, 2, 1>>, <<544, 544, 1, -130>>, <<546, 562, 2, 1>>,
    <<570, 570, 1, 10795>>, <<571, 571, 1, 1>>, <<573, 573, 1, -163>>,
    <<574, 574, 1, 10792>>, <<577, 577, 1, 1>>, <<579, 579, 1, -195>>,
    <<580, 580, 1, 69>>, <<581, 581, 1, 71>>, <<582, 590, 2, 1>>,
    <<880, 882, 2, 1>>, <<886, 886, 1, 1>>, <<895, 895, 1, 116>>,
    <<902, 902, 1, 38>>, <<904, 906, 1, 37>>, <<908, 908, 1, 64>>,
    <<910, 911, 1, 63>>, <<913, 929, 1, 32>>, <<931, 939, 1, 32>>,
    <<975, 975, 1, 8>>, <<984, 1006, 2, 1>>, <<1012, 1012, 1, -60>>,
    <<1015, 1015, 1, 1>>, <<1017, 1017, 1, -7>>, <<1018, 1018, 1, 1>>,
    <<1021, 1023, 1, -130>>, <<1024, 1039, 1, 80>>, <<1040, 1071, 1, 32>>,
    <<1120, 1152, 2, 1>>, <<1162, 1214, 2, 1>>, <<1216, 1216, 1, 15>>,
    <<1217, 1229, 2, 1>>, <<1232, 1326, 2, 1>>, <<1329, 1366, 1, 48>>,
    <<4256, 4293, 1, 7264>>, <<4295, 4295, 1, 7264>>, <<4301, 4301, 1, 7264>>,
    <<5024, 5103, 1, 38864>>, <<5104, 5109, 1, 8>>, <<7312, 7354, 1, -3008>>,
    <<7357, 7359, 1, -3008>>, <<7680, 7828, 2, 1>>, <<7838, 7838, 1, -7615>>,
    <<7840, 7934, 2, 1>>, <<7944, 7951, 1, -8>>, <<7960, 7965, 1, -8>>,
    <<7976, 7983, 1, -8>>, <<7992, 7999, 1, -8>>, <<8008, 8013, 1, -8>>,
    <<8025, 8031, 2, -8>>, <<8040, 8047, 1, -8>>, <<8072, 8079, 1, -8>>,
    <<8088, 8095, 1, -8>>, <<8104, 8111, 1, -8>>, <<8120, 8121, 1, -8>>,
    <<8122, 8123, 1, -74>>, <<8124, 8124, 1, -9>>, <<8136, 8139, 1, -86>>,
    <<8140, 8140, 1, -9>>, <<8152, 8153, 1, -8>>, <<8154, 8155, 1, -100>>,
    <<8168, 8169, 1, -8>>, <<8170, 8171, 1, -112>>, <<8172, 8172, 1, -7>>,
    <<8184, 8185, 1, -128>>, <<8186, 8187, 1, -126>>, <<8188, 8188, 1, -9>>,
    <<8486, 8486, 1, -7517>>, <<8490, 8490, 1, -8383>>, <<8491, 8491, 1, -8262>>,
    <<8498, 8498, 1, 28>>, <<8544, 8559, 1, 16>>, <<8579, 8579, 1, 1>>,
    <<9398, 9423, 1, 26>>, <<11264, 11311, 1, 48>>, <<11360, 11360, 1, 1>>,
    <<11362, 11362, 1, -10743>>, <<11363, 11363, 1, -3814>>, <<11364, 11364, 1, -10727>>,
    <<11367, 11371, 2, 1>>, <<11373, 11373, 1, -10780>>, <<11374, 11374, 1, -10749>>,
    <<11375, 11375, 1, -10783>>, <<11376, 11376, 1, -10782>>, <<11378, 11378, 1, 1>>,
    <<11381, 11381, 1, 1>>, <<11390, 11391, 1, -10815>>, <<11392, 11490, 2, 1>>,
    <<11499, 11501, 2, 1>>, <<11506, 11506, 1, 1>>, <<42560, 42604, 2, 1>>,
    <<42624, 42650, 2, 1>>, <<42786, 42798, 2, 1>>, <<42802, 42862, 2, 1>>,
    <<42873, 42875, 2, 1>>, <<42877, 42877, 1, -35332>>, <<42878, 42886, 2, 1>>,
    <<42891, 42891, 1, 1>>, <<42893, 42893, 1, -42280>>, <<42896, 42898, 2, 1>>,
    <<42902, 42920, 2, 1>>, <<42922, 42922, 1, -42308>>, <<42923, 42923, 1, -42319>>,
    <<42924, 42924, 1, -42315>>, <<42925, 42925, 1, -42305>>, <<42926, 42926, 1, -42308>>,
    <<42928, 42928, 1, -42258>>, <<42929, 42929, 1, -42282>>, <<42930, 42930, 1, -42261>>,
    <<42931, 42931, 1, 928>>, <<42932, 42946, 2, 1>>, <<42948, 42948, 1, -48>>,
    <<42949, 42949, 1, -42307>>, <<42950, 42950, 1, -35384>>, <<42951, 42953, 2, 1>>,
    <<42960, 42960, 1, 1>>, <<42966, 42968, 2, 1>>, <<42997, 42997, 1, 1>>,
    <<65313, 65338, 1, 32>>, <<66560, 66599, 1, 40>>, <<66736, 66771, 1, 40>>,
    <<66928, 66938, 1, 39>>, <<66940, 66954, 1, 39>>, <<66956, 66962, 1, 39>>,
    <<66964, 66965, 1, 39>>, <<68736, 68786, 1, 64>>, <<71840, 71871, 1, 32>>,
    <<93760, 93791, 1, 32>>, <<125184, 125217, 1, 34>> }

PieceChars(r) == {r[1] + r[3] * k : k \in 0..((r[2] - r[1]) \div r[3])}

LowerOf == [c \in UNION {PieceChars(r) : r \in LowerPieces} |->
               c + (CHOOSE r \in LowerPieces : c \in PieceChars(r))[4]]

HasLower == DOMAIN LowerOf

\* the lower-case character of c (one character for every c)
unicode_tolower(c) ==
    IF c < 128 THEN (IF c \in 65..90 THEN c + 32 ELSE c)
    ELSE IF c \in HasLower THEN LowerOf[c] ELSE c

\* str.lower() on one character: U+0130 alone lowers to two characters
LowerChar(c) == IF c = 304 THEN <<105, 775>> ELSE <<unicode_tolower(c)>>

\* the cased characters, as ranges <<first, last>>
CasedRanges == {
    <<65, 90>>, <<97, 122>>, <<170, 170>>, <<181, 181>>, <<186, 186>>,
    <<192, 214>>, <<216, 246>>, <<248, 442>>, <<444, 447>>, <<452, 659>>,
    <<661, 696>>, <<704, 705>>, <<736, 740>>, <<837, 837>>, <<880, 883>>,
    <<886, 887>>, <<890, 893>>, <<895, 895>>, <<902, 902>>, <<904, 906>>,
    <<908, 908>>, <<910, 929>>, <<931, 1013>>, <<1015, 1153>>, <<1162, 1327>>,
    <<1329, 1366>>, <<1376, 1416>>, <<4256, 4293>>, <<4295, 4295>>, <<4301, 4301>>,
    <<4304, 4346>>, <<4349, 4351>>, <<5024, 5109>>, <<5112, 5117>>, <<7296, 7304>>,
    <<7312, 7354>>, <<7357, 7359>>, <<7424, 7615>>, <<7680, 7957>>, <<7960, 7965>>,
    <<7968, 8005>>, <<8008, 8013>>, <<8016, 8023>>, <<8025, 8025>>, <<8027, 8027>>,
    <<8029, 8029>>, <<8031, 8061>>, <<8064, 8116>>, <<8118, 8124>>, <<8126, 8126>>,
    <<8130, 8132>>, <<8134, 8140>>, <<8144, 8147>>, <<8150, 8155>>, <<8160, 8172>>,
    <<8178, 8180>>, <<8182, 8188>>, <<8305, 8305>>, <<8319, 8319>>, <<8336, 8348>>,
    <<8450, 8450>>, <<8455, 8455>>, <<8458, 8467>>, <<8469, 8469>>, <<8473, 8477>>,
    <<8484, 8484>>, <<8486, 8486>>, <<8488, 8488>>, <<8490, 8493>>, <<8495, 8500>>,
    <<8505, 8505>>, <<8508, 8511>>, <<8517, 8521>>, <<8526, 8526>>, <<8544, 8575>>,
    <<8579, 8580>>, <<9398, 9449>>, <<11264, 11492>>, <<11499, 11502>>, <<11506, 11507>>,
    <<11520, 11557>>, <<11559, 11559>>, <<11565, 11565>>, <<42560, 42605>>, <<42624, 42653>>,
    <<42786, 42887>>, <<42891, 42894>>, <<42896, 42954>>, <<42960, 42961>>, <<42963, 42963>>,
    <<42965, 42969>>, <<42997, 42998>>, <<43000, 43002>>, <<43824, 43866>>, <<43868, 43880>>,
    <<43888, 43967>>, <<64256, 64262>>, <<64275, 64279>>, <<65313, 65338>>, <<65345, 65370>>,
    <<66560, 66639>>, <<66736, 66771>>, <<66776, 66811>>, <<66928, 66938>>, <<66940, 66954>>,
    <<66956, 66962>>, <<66964, 66965>>, <<66967, 66977>>, <<66979, 66993>>, <<66995, 67001>>,
    <<67003, 67004>>, <<67456, 67456>>, <<67459, 67461>>, <<67463, 67504>>, <<67506, 67514>>,
    <<68736, 68786>>, <<68800, 68850>>, <<71840, 71903>>, <<93760, 93823>>, <<119808, 119892>>,
    <<119894, 119964>>, <<119966, 119967>>, <<119970, 119970>>, <<119973, 119974>>, <<119977, 119980>>,
    <<119982, 119993>>, <<119995, 119995>>, <<119997, 120003>>, <<120005, 120069>>, <<120071, 120074>>,
    <<120077, 120084>>, <<120086, 120092>>, <<120094, 120121>>, <<120123, 120126>>, <<120128, 120132>>,
    <<120134, 120134>>, <<120138, 120144>>, <<120146, 120485>>, <<120488, 120512>>, <<120514, 120538>>,
    <<120540, 120570>>, <<120572, 120596>>, <<120598, 120628>>, <<120630, 120654>>, <<120656, 120686>>,
    <<120688, 120712>>, <<120714, 120744>>, <<120746, 120770>>, <<120772, 120779>>, <<122624, 122633>>,
    <<122635, 122654>>, <<125184, 125251>>, <<127280, 127305>>, <<127312, 127337>>, <<127344, 127369>> }

\* the case-ignorable characters, as ranges <<first, last>>
CaseIgnorableRanges == {
    <<39, 39>>, <<46, 46>>, <<58, 58>>, <<94, 94>>, <<96, 96>>,
    <<168, 168>>, <<173, 173>>, <<175, 175>>, <<180, 180>>, <<183, 184>>,
    <<688, 879>>, <<884, 885>>, <<890, 890>>, <<900, 901>>, <<903, 903>>,
    <<1155, 1161>>, <<1369, 1369>>, <<1375, 1375>>, <<1425, 1469>>, <<1471, 1471>>,
    <<1473, 1474>>, <<1476, 1477>>, <<1479, 1479>>, <<1524, 1524>>, <<1536, 1541>>,
    <<1552, 1562>>, <<1564, 1564>>, <<1600, 1600>>, <<1611, 1631>>, <<1648, 1648>>,
    <<1750, 1757>>, <<1759, 1768>>, <<1770, 1773>>, <<1807, 1807>>, <<1809, 1809>>,
    <<1840, 1866>>, <<1958, 1968>>, <<2027, 2037>>, <<2042, 2042>>, <<2045, 2045>>,
    <<2070, 2093>>, <<2137, 2139>>, <<2184, 2184>>, <<2192, 2193>>, <<2200, 2207>>,
    <<2249, 2306>>, <<2362, 2362>>, <<2364, 2364>>, <<2369, 2376>>, <<2381, 2381>>,
    <<2385, 2391>>, <<2402, 2403>>, <<2417, 2417>>, <<2433, 2433>>, <<2492, 2492>>,
    <<2497, 2500>>, <<2509, 2509>>, <<2530, 2531>>, <<2558, 2558>>, <<2561, 2562>>,
    <<2620, 2620>>, <<2625, 2626>>, <<2631, 2632>>, <<2635, 2637>>, <<2641, 2641>>,
    <<2672, 2673>>, <<2677, 2677>>, <<2689, 2690>>, <<2748, 2748>>, <<2753, 2757>>,
    <<2759, 2760>>, <<2765, 2765>>, <<2786, 2787>>, <<2810, 2815>>, <<2817, 2817>>,
    <<2876, 2876>>, <<2879, 2879>>, <<2881, 2884>>, <<2893, 2893>>, <<2901, 2902>>,
    <<2914, 2915>>, <<2946, 2946>>, <<3008, 3008>>, <<3021, 3021>>, <<3072, 3072>>,
    <<3076, 3076>>, <<3132, 3132>>, <<3134, 3136>>, <<3142, 3144>>, <<3146, 3149>>,
    <<3157, 3158>>, <<3170, 3171>>, <<3201, 3201>>, <<3260, 3260>>, <<3263, 3263>>,
    <<3270, 3270>>, <<3276, 3277>>, <<3298, 3299>>, <<3328, 3329>>, <<3387, 3388>>,
    <<3393, 3396>>, <<3405, 3405>>, <<3426, 3427>>, <<3457, 3457>>, <<3530, 3530>>,
    <<3538, 3540>>, <<3542, 3542>>, <<3633, 3633>>, <<3636, 3642>>, <<3654, 3662>>,
    <<3761, 3761>>, <<3764, 3772>>, <<3782, 3782>>, <<3784, 3789>>, <<3864, 3865>>,
    <<3893, 3893>>, <<3895, 3895>>, <<3897, 3897>>, <<3953, 3966>>, <<3968, 3972>>,
    <<3974, 3975>>, <<3981, 3991>>, <<3993, 4028>>, <<4038, 4038>>, <<4141, 4144>>,
    <<4146, 4151>>, <<4153, 4154>>, <<4157, 4158>>, <<4184, 4185>>, <<4190, 4192>>,
    <<4209, 4212>>, <<4226, 4226>>, <<4229, 4230>>, <<4237, 4237>>, <<4253, 4253>>,
    <<4348, 4348>>, <<4957, 4959>>, <<5906, 5908>>, <<5938, 5939>>, <<5970, 5971>>,
    <<6002, 6003>>, <<6068, 6069>>, <<6071, 6077>>, <<6086, 6086>>, <<6089, 6099>>,
    <<6103, 6103>>, <<6109, 6109>>, <<6155, 6159>>, <<6211, 6211>>, <<6277, 6278>>,
    <<6313, 6313>>, <<6432, 6434>>, <<6439, 6440>>, <<6450, 6450>>, <<6457, 6459>>,
    <<6679, 6680>>, <<6683, 6683>>, <<6742, 6742>>, <<6744, 6750>>, <<6752, 6752>>,
    <<6754, 6754>>, <<6757, 6764>>, <<6771, 6780>>, <<6783, 6783>>, <<6823, 6823>>,
    <<6832, 6862>>, <<6912, 6915>>, <<6964, 6964>>, <<6966, 6970>>, <<6972, 6972>>,
    <<6978, 6978>>, <<7019, 7027>>, <<7040, 7041>>, <<7074, 7077>>, <<7080, 7081>>,
    <<7083, 7085>>, <<7142, 7142>>, <<7144, 7145>>, <<7149, 7149>>, <<7151, 7153>>,
    <<7212, 7219>>, <<7222, 7223>>, <<7288, 7293>>, <<7376, 7378>>, <<7380, 7392>>,
    <<7394, 7400>>, <<7405, 7405>>, <<7412, 7412>>, <<7416, 7417>>, <<7468, 7530>>,
    <<7544, 7544>>, <<7579, 7679>>, <<8125, 8125>>, <<8127, 8129>>, <<8141, 8143>>,
    <<8157, 8159>>, <<8173, 8175>>, <<8189, 8190>>, <<8203, 8207>>, <<8216, 8217>>,
    <<8228, 8228>>, <<8231, 8231>>, <<8234, 8238>>, <<8288, 8292>>, <<8294, 8303>>,
    <<8305, 8305>>, <<8319, 8319>>, <<8336, 8348>>, <<8400, 8432>>, <<11388, 11389>>,
    <<11503, 11505>>, <<11631, 11631>>, <<11647, 11647>>, <<11744, 11775>>, <<11823, 11823>>,
    <<12293, 12293>>, <<12330, 12333>>, <<12337, 12341>>, <<12347, 12347>>, <<12441, 12446>>,
    <<12540, 12542>>, <<40981, 40981>>, <<42232, 42237>>, <<42508, 42508>>, <<42607, 42610>>,
    <<42612, 42621>>, <<42623, 42623>>, <<42652, 42655>>, <<42736, 42737>>, <<42752, 42785>>,
    <<42864, 42864>>, <<42888, 42890>>, <<42994, 42996>>, <<43000, 43001>>, <<43010, 43010>>,
    <<43014, 43014>>, <<43019, 43019>>, <<43045, 43046>>, <<43052, 43052>>, <<43204, 43205>>,
    <<43232, 43249>>, <<43263, 43263>>, <<43302, 43309>>, <<43335, 43345>>, <<43392, 43394>>,
    <<43443, 43443>>, <<43446, 43449>>, <<43452, 43453>>, <<43471, 43471>>, <<43493, 43494>>,
    <<43561, 43566>>, <<43569, 43570>>, <<43573, 43574>>, <<43587, 43587>>, <<43596, 43596>>,
    <<43632, 43632>>, <<43644, 43644>>, <<43696, 43696>>, <<43698, 43700>>, <<43703, 43704>>,
    <<43710, 43711>>, <<43713, 43713>>, <<43741, 43741>>, <<43756, 43757>>, <<43763, 43764>>,
    <<43766, 43766>>, <<43867, 43871>>, <<43881, 43883>>, <<44005, 44005>>, <<44008, 44008>>,
    <<44013, 44013>>, <<64286, 64286>>, <<64434, 64450>>, <<65024, 65039>>, <<65043, 65043>>,
    <<65056, 65071>>, <<65106, 65106>>, <<65109, 65109>>, <<65279, 65279>>, <<65287, 65287>>,
    <<65294, 65294>>, <<65306, 65306>>, <<65342, 65342>>, <<65344, 65344>>, <<65392, 65392>>,
    <<65438, 65439>>, <<65507, 65507>>, <<65529, 65531>>, <<66045, 66045>>, <<66272, 66272>>,
    <<66422, 66426>>, <<67456, 67461>>, <<67463, 67504>>, <<67506, 67514>>, <<68097, 68099>>,
    <<68101, 68102>>, <<68108, 68111>>, <<68152, 68154>>, <<68159, 68159>>, <<68325, 68326>>,
    <<68900, 68903>>, <<69291, 69292>>, <<69446, 69456>>, <<69506, 69509>>, <<69633, 69633>>,
    <<69688, 69702>>, <<69744, 69744>>, <<69747, 69748>>, <<69759, 69761>>, <<69811, 69814>>,
    <<69817, 69818>>, <<69821, 69821>>, <<69826, 69826>>, <<69837, 69837>>, <<69888, 69890>>,
    <<69927, 69931>>, <<69933, 69940>>, <<70003, 70003>>, <<70016, 70017>>, <<70070, 70078>>,
    <<70089, 70092>>, <<70095, 70095>>, <<70191, 70193>>, <<70196, 70196>>, <<70198, 70199>>,
    <<70206, 70206>>, <<70367, 70367>>, <<70371, 70378>>, <<70400, 70401>>, <<70459, 70460>>,
    <<70464, 70464>>, <<70502, 70508>>, <<70512, 70516>>, <<70712, 70719>>, <<70722, 70724>>,
    <<70726, 70726>>, <<70750, 70750>>, <<70835, 70840>>, <<70842, 70842>>, <<70847, 70848>>,
    <<70850, 70851>>, <<71090, 71093>>, <<71100, 71101>>, <<71103, 71104>>, <<71132, 71133>>,
    <<71219, 71226>>, <<71229, 71229>>, <<71231, 71232>>, <<71339, 71339>>, <<71341, 71341>>,
    <<71344, 71349>>, <<71351, 71351>>, <<71453, 71455>>, <<71458, 71461>>, <<71463, 71467>>,
    <<71727, 71735>>, <<71737, 71738>>, <<71995, 71996>>, <<71998, 71998>>, <<72003, 72003>>,
    <<72148, 72151>>, <<72154, 72155>>, <<72160, 72160>>, <<72193, 72202>>, <<72243, 72248>>,
    <<72251, 72254>>, <<72263, 72263>>, <<72273, 72278>>, <<72281, 72283>>, <<72330, 72342>>,
    <<72344, 72345>>, <<72752, 72758>>, <<72760, 72765>>, <<72767, 72767>>, <<72850, 72871>>,
    <<72874, 72880>>, <<72882, 72883>>, <<72885, 72886>>, <<73009, 73014>>, <<73018, 73018>>,
    <<73020, 73021>>, <<73023, 73029>>, <<73031, 73031>>, <<73104, 73105>>, <<73109, 73109>>,
    <<73111, 73111>>, <<73459, 73460>>, <<78896, 78904>>, <<92912, 92916>>, <<92976, 92982>>,
    <<92992, 92995>>, <<94031, 94031>>, <<94095, 94111>>, <<94176, 94177>>, <<94179, 94180>>,
    <<110576, 110579>>, <<110581, 110587>>, <<110589, 110590>>, <<113821, 113822>>, <<113824, 113827>>,
    <<118528, 118573>>, <<118576, 118598>>, <<119143, 119145>>, <<119155, 119170>>, <<119173, 119179>>,
    <<119210, 119213>>, <<119362, 119364>>, <<121344, 121398>>, <<121403, 121452>>, <<121461, 121461>>,
    <<121476, 121476>>, <<121499, 121503>>, <<121505, 121519>>, <<122880, 122886>>, <<122888, 122904>>,
    <<122907, 122913>>, <<122915, 122916>>, <<122918, 122922>>, <<123184, 123197>>, <<123566, 123566>>,
    <<123628, 123631>>, <<125136, 125142>>, <<125252, 125259>>, <<127995, 127999>>, <<917505, 917505>>,
    <<917536, 917631>>, <<917760, 917999>> }

IsCased(c) == \E r \in CasedRanges : r[1] <= c /\ c <= r[2]

IsCaseIgnorable(c) == \E r \in CaseIgnorableRanges : r[1] <= c /\ c <= r[2]

\* whether the capital sigma at t[i] ends a word: a cased character before
\* it and none after it, case-ignorable characters skipped on both sides
final_sigma(t, i) ==
    LET before == {j \in 1..(i - 1) : ~IsCaseIgnorable(t[j])}
        after == {j \in (i + 1)..Len(t) : ~IsCaseIgnorable(t[j])}
    IN  /\ before # {}
        /\ IsCased(t[CHOOSE j \in before : \A k \in before : k <= j])
        /\ \/ after = {}
           \/ ~IsCased(t[CHOOSE j \in after : \A k \in after : j <= k])

RECURSIVE LowerFrom(_, _)
LowerFrom(t, i) ==
    IF i > Len(t) THEN <<>>
    ELSE (IF t[i] = 931
          THEN <<IF final_sigma(t, i) THEN 962 ELSE 963>>
          ELSE LowerChar(t[i])) \o LowerFrom(t, i + 1)

\* str.lower()
lower(t) == LowerFrom(t, 1)

\* the characters that re.IGNORECASE lets match beside the lower-case letter
\* itself (the rows of the equivalence table of sre that hold an ASCII letter)
CaseFixes(lo) == IF lo = 105 THEN {305} ELSE IF lo = 115 THEN {383} ELSE {}

\* the character c matches the literal p of a pattern under re.IGNORECASE
MatchesIgnoreCase(c, p) ==
    LET lo == unicode_tolower(p)
    IN  unicode_tolower(c) \in {lo} \cup CaseFixes(lo)

\* the literal w of a pattern matches t at position i under re.IGNORECASE
MatchAtIgnoreCase(t, i, w) ==
    /\ i >= 1
    /\ i + Len(w) - 1 <= Len(t)
    /\ \A k \in 1..Len(w) : MatchesIgnoreCase(t[i + k - 1], w[k])

\* t[i:i+len(w)] == w
MatchAt(t, i, w) ==
    /\ i >= 1
    /\ i + Len(w) - 1 <= Len(t)
    /\ \A k \in 1..Len(w) : t[i + k - 1] = w[k]

\* w in t
Contains(t, w) == \E i \in 1..(Len(t) + 1) : MatchAt(t, i, w)

\* t.lstrip()
RECURSIVE lstrip(_)
lstrip(t) ==
    IF t # <<>> /\ Head(t) \in WhitespaceChars THEN lstrip(Tail(t)) ELSE t

\* t.rstrip()
RECURSIVE rstrip(_)
rstrip(t) ==
    IF t # <<>> /\ t[Len(t)] \in WhitespaceChars
    THEN rstrip(SubSeq(t, 1, Len(t) - 1))
    ELSE t

\* re.sub(r'\s+', ' ', t): every maximal whitespace run becomes one space
RECURSIVE CollapseWhitespace(_)
CollapseWhitespace(t) ==
    IF t = <<>> THEN <<>>
    ELSE IF Head(t) \in WhitespaceChars
         THEN <<32>> \o CollapseWhitespace(lstrip(Tail(t)))
         ELSE <<Head(t)>> \o CollapseWhitespace(Tail(t))

\* normalize(t) = re.sub(r'\s+', ' ', t).strip()
normalize(t) == rstrip(lstrip(CollapseWhitespace(t)))

\* n consecutive digits start at position i
DigitsAt(t, i, n) ==
    /\ i >= 1
    /\ i + n - 1 <= Len(t)
    /\ \A k \in 0..(n - 1) : t[i + k] \in DigitChars

\* the characters i..(i+k-1) are whitespace: what \s* consumes
SpacesAt(t, i, k) ==
    /\ i + k - 1 <= Len(t)
    /\ \A m \in 0..(k - 1) : t[i + m] \in WhitespaceChars

wintersemester == Text(<<"W", "i", "n", "t", "e", "r", "s", "e", "m", "e", "s", "t", "e", "r">>)
sommersemester == Text(<<"S", "o", "m", "m", "e", "r", "s", "e", "m", "e", "s", "t", "e", "r">>)
term2025 == Text(<<"2", "0", "2", "5", "/", "2", "6">>)

\* re.search(r"Wintersemester\s*2025/26", txt, re.IGNORECASE)
SearchExactTerm(txt) ==
    \E i \in 1..Len(txt) :
        /\ MatchAtIgnoreCase(txt, i, wintersemester)
        /\ \E k \in 0..Len(txt) :
                /\ SpacesAt(txt, i + Len(wintersemester), k)
                /\ MatchAtIgnoreCase(txt, i + Len(wintersemester) + k, term2025)

\* re.search(r"(Wintersemester|Sommersemester)\s*\d{4}(/\d{2})?", txt, re.IGNORECASE)
\* (the optional group never decides whether the search succeeds)
SearchGenericTerm(txt) ==
    \E i \in 1..Len(txt) :
        /\ \/ MatchAtIgnoreCase(txt, i, wintersemester)
           \/ MatchAtIgnoreCase(txt, i, sommersemester)
        /\ \E k \in 0..Len(txt) :
                /\ SpacesAt(txt, i + Len(wintersemester), k)
                /\ DigitsAt(txt, i + Len(wintersemester) + k, 4)

\* target_patterns, in list order
NumPatterns == 2
SearchPattern(p, txt) ==
    IF p = 1 THEN SearchExactTerm(txt) ELSE SearchGenericTerm(txt)

\* re.search(r'\d{4,6}', link_text): a run of at least four digits somewhere
SearchId(link_text) == \E i \in 1..Len(link_text) : DigitsAt(link_text, i, 4)

junk == <<
    Text(<<"T", "a", "g">>),
    Text(<<"Z", "e", "i", "t">>),
    Text(<<"R", "h", "y", "t", "h", "m", "u", "s">>),
    Text(<<"D", "a", "u", "e", "r">>),
    Text(<<"R", "a", "u", "m">>),
    Text(<<"L", "e", "h", "r", "p", "e", "r", "s", "o", "n">>),
    Text(<<"H", "i", "n", "w", "e", "i", "s">>),
    Text(<<"B", "e", "l", "e", "g", "u", "n", "g", "s", "i", "n", "f", "o", "r", "m", "a", "t", "i", "o", "n">>),
    Text(<<"f", "i", "n", "d", "e", "t", " ", "s", "t", "a", "t", "t">>),
    Text(<<"B", "e", "l", "e", "g", "u", "n", "g", "s", "-">>),
    Text(<<"P", "D", "F">>),
    Text(<<"S", "t", "u", "n", "d", "e", "n", "p", "l", "a", "n">>),
    Text(<<"A", "n", "m", "e", "l", "d", "e", "n">>),
    Text(<<"L", "o", "g", "i", "n">>),
    Text(<<"A", "b", "m", "e", "l", "d", "e", "n">>) >>

\* any(j.lower() in link_text.lower() for j in junk)
IsJunk(link_text) ==
    LET low == lower(link_text)
    IN  \E n \in 1..Len(junk) : Contains(low, lower(junk[n]))

MinTextLen == 5

\* a filter in which the id pattern is tested last and overrides the rejections
is_candidate_id_last(link_text) ==
    \/ SearchId(link_text)
    \/ (~IsJunk(link_text) /\ ~(Len(link_text) < MinTextLen))

\* the value of is_candidate after lines 241-252
is_candidate(link_text) ==
    /\ SearchId(link_text)
    /\ ~IsJunk(link_text)
    /\ ~(Len(link_text) < MinTextLen)

(***************************************************************************)
(* Documents.  A document is the sequence of its nodes in document order.  *)
(* A node is a tag, with its name, whether its class attribute holds       *)
(* "Leistungen_Inhalt" and the string it begins with, or a string of its   *)
(* own; depth is the number of tags the node lies in, so that the nodes    *)
(* inside a tag are those that follow it at a greater depth.               *)
(***************************************************************************)
Tag(name, cls, text) == [name |-> name, cls |-> cls, text |-> text, depth |-> 0]

\* a string between tags (its name is None)
NavigableString(text) == [name |-> "None", cls |-> FALSE, text |-> text, depth |-> 0]

\* the node, placed d tags deep
Nested(node, d) == [node EXCEPT !.depth = d]

\* the last node inside node i (i itself when it is empty); node 0 is the soup
LastInside(doc, i) ==
    IF i = 0 THEN Len(doc)
    ELSE LET inside == {j \in i..Len(doc) :
                           \A k \in (i + 1)..j : doc[k].depth > doc[i].depth}
         IN  CHOOSE j \in inside : \A k \in inside : k <= j

RECURSIVE JoinTexts(_, _, _)
JoinTexts(doc, from, to) ==
    IF from > to THEN <<>> ELSE doc[from].text \o JoinTexts(doc, from + 1, to)

\* node.get_text(): the strings inside the node, concatenated in document
\* order; get_text(doc, 0) is soup.get_text()
get_text(doc, i) == JoinTexts(doc, IF i = 0 THEN 1 ELSE i, LastInside(doc, i))

\* the test of find_all("div", class_="Leistungen_Inhalt") and of line 230
IsHeader(node) == node.name = "div" /\ node.cls

\* all_headers: the positions of the header divs, in document order
all_headers(doc) == {i \in 1..Len(doc) : IsHeader(doc[i])}

\* the inner loop of lines 199-204 for one pattern: first matching header, or 0
FirstMatch(doc, p) ==
    LET hits == {i \in all_headers(doc) : SearchPattern(p, normalize(get_text(doc, i)))}
    IN  IF hits = {} THEN 0 ELSE CHOOSE i \in hits : \A j \in hits : i <= j

\* lines 198-205: the patterns in order, stop at the first that yields a header
RECURSIVE FindStartFrom(_, _)
FindStartFrom(doc, p) ==
    IF p > NumPatterns THEN 0
    ELSE LET header == FirstMatch(doc, p)
         IN  IF header # 0 THEN header ELSE FindStartFrom(doc, p + 1)

\* a search that takes the first header matching any of the patterns
find_first_term_header(doc) ==
    LET hits == {i \in all_headers(doc) :
                    \E p \in 1..NumPatterns : SearchPattern(p, normalize(get_text(doc, i)))}
    IN  IF hits = {} THEN 0 ELSE CHOOSE i \in hits : \A j \in hits : i <= j

find_start_node(doc) == FindStartFrom(doc, 1)

\* a collection loop without the break at the next header
StopAtDocumentEnd(doc, start) == Len(doc) + 1

\* the position at which the loop of lines 228-235 breaks (Len+1: never)
StopIndex(doc, start) ==
    LET later == {i \in all_headers(doc) : i > start}
    IN  IF later = {} THEN Len(doc) + 1
        ELSE CHOOSE i \in later : \A j \in later : i <= j

\* lines 226-235: the anchors met by find_all_next() before the break
RECURSIVE CollectFrom(_, _, _)
CollectFrom(doc, i, stop) ==
    IF i >= stop \/ i > Len(doc) THEN <<>>
    ELSE IF doc[i].name = "a" THEN <<i>> \o CollectFrom(doc, i + 1, stop)
         ELSE CollectFrom(doc, i + 1, stop)

\* a collection loop that starts at the top of the document
collect_from_top(doc, start) ==
    CollectFrom(doc, 1, StopIndex(doc, start))

collect_candidate_links(doc, start) ==
    CollectFrom(doc, start + 1, StopIndex(doc, start))

\* lines 238-258: one pass over candidate_links with classes and seen_names
RECURSIVE ProcessLinks(_, _, _)
ProcessLinks(doc, links, classes) ==
    IF links = <<>> THEN classes
    ELSE LET link_text == normalize(get_text(doc, Head(links)))
             seen_names == {classes[k] : k \in 1..Len(classes)}
         IN  IF is_candidate(link_text) /\ link_text \notin seen_names
             THEN ProcessLinks(doc, Tail(links), Append(classes, link_text))
             ELSE ProcessLinks(doc, Tail(links), classes)

\* a pass that appends every accepted link, seen before or not
RECURSIVE ProcessLinksUnseen(_, _, _)
ProcessLinksUnseen(doc, links, classes) ==
    IF links = <<>> THEN classes
    ELSE LET link_text == normalize(get_text(doc, Head(links)))
         IN  IF is_candidate(link_text)
             THEN ProcessLinksUnseen(doc, Tail(links), Append(classes, link_text))
             ELSE ProcessLinksUnseen(doc, Tail(links), classes)

process_without_seen(doc, links) == ProcessLinksUnseen(doc, links, <<>>)

process_candidates(doc, links) == ProcessLinks(doc, links, <<>>)

OldMarker == Text(<<"A", "k", "t", "u", "e", "l", "l", "e", " ", "V", "e", "r", "a", "n", "s", "t", "a", "l", "t", "u", "n", "g", "e", "n">>)
start_marker == OldMarker \o Text(<<":">>)

\* a legacy path that classifies the anchors of the whole document
legacy_extract_links(doc) ==
    process_candidates(doc, CollectFrom(doc, 1, Len(doc) + 1))

\* _legacy_extract: both of its paths return the empty list
legacy_extract(doc) ==
    IF ~Contains(normalize(get_text(doc, 0)), start_marker) THEN <<>> ELSE <<>>

\* extract_current_classes(html_content)
extract_current_classes(doc) ==
    LET start == find_start_node(doc)
    IN  IF start = 0
        THEN IF Contains(get_text(doc, 0), OldMarker) THEN legacy_extract(doc) ELSE <<>>
        ELSE process_candidates(doc, collect_candidate_links(doc, start))


(***************************************************************************)
(* Element lookup by an ordered strategy list (lines 86-93, 103-110,       *)
(* 119-126, 144-151).  A lookup either raises (the locator matches         *)
(* nothing), yields an element whose is_displayed() is False or True, or   *)
(* yields an element whose is_displayed() raises.                          *)
(***************************************************************************)
LookupOutcomes == {"missing", "hidden", "visible", "error"}

username_strategies == <<"id=username", "name=j_username", "css=input#idToken1", "css=input[type='text']">>
password_strategies == <<"id=password", "name=j_password", "css=input#idToken2", "css=input[type='password']">>
submit_strategies == <<"name=_eventId_proceed", "id=loginButton_0", "css=button[type='submit']", "css=input[type='submit']">>
token_strategies == <<"id=token", "name=otp", "css=input[inputmode='numeric']">>

StrategyLists == {username_strategies, password_strategies, submit_strategies, token_strategies}

LookupResults(strategies) == [1..Len(strategies) -> LookupOutcomes]

\* the for/try/except-continue loop from strategy i on: the position of the
\* first strategy whose element is found and displayed, 0 for None
RECURSIVE ResolveFrom(_, _)
ResolveFrom(lookups, i) ==
    IF i > Len(lookups) THEN 0
    ELSE IF lookups[i] = "visible" THEN i
         ELSE ResolveFrom(lookups, i + 1)

\* a loop that takes the first element found, displayed or not
RECURSIVE ResolveAnyFrom(_, _)
ResolveAnyFrom(lookups, i) ==
    IF i > Len(lookups) THEN 0
    ELSE IF lookups[i] \in {"visible", "hidden"} THEN i
         ELSE ResolveAnyFrom(lookups, i + 1)

resolve_any_found(lookups) == ResolveAnyFrom(lookups, 1)

resolve(lookups) == ResolveFrom(lookups, 1)

(***************************************************************************)
(* State.                                                                  *)
(***************************************************************************)
VARIABLES
    pc,               \* position in the running method
    caller,           \* who invoked login(): get_current_classes or a direct caller
    calls,            \* number of login() invocations so far
    login_results,    \* outcomes of the finished login() invocations, in order
    driver,           \* self.driver: "none", "open" or "quit"
    page,             \* what the browser session currently shows
    current_url,      \* local of login(), line 29
    page_source,      \* local of login(), line 30
    login_btn,        \* local of login(): "None" or the link element found
    user_field,       \* locals of _inject_sso_credentials: "None" or the
    pass_field,       \*   element that the resolution loop ended with
    submit_btn,
    token_field,
    totp_secret,      \* self.totp_secret is set
    login_ret,        \* how the last login() ended: "none", "True", "False", "raised"
    last_wait,        \* the last explicit wait and whether it returned or raised
    exc,              \* message of the exception being handled
    result,           \* what get_current_classes returned
    log,              \* UI mutations, debug dumps and quit, in order
    html,             \* the markup handed to extract_current_classes
    start_node,       \* locals of extract_current_classes
    candidate_links,
    class_names,      \* its return value
    strategies,       \* the strategy list of one resolution loop
    found,            \* the lookup outcome of each of its strategies
    resolved          \* the element the loop ends with (0: None)

login_vars == <<caller, calls, login_results, driver, page, current_url, page_source,
                login_btn, user_field, pass_field, submit_btn, token_field,
                totp_secret, login_ret, last_wait, exc, result, log>>
extract_vars == <<html, start_node, candidate_links, class_names>>
resolve_vars == <<strategies, found, resolved>>
vars == <<pc, login_vars, extract_vars, resolve_vars>>

\* a page of the browser: which host names its URL holds ("both": the URL
\* of the identity provider carrying the portal's address), and what its
\* source shows
Pages == [dom : {"lsf", "sso", "both", "other"}, abmelden : BOOLEAN, otp : BOOLEAN]

\* "lsf.tu-dortmund.de" in url
OnPortal(url) == url \in {"lsf", "both"}

\* "sso.itmc" in url
OnSso(url) == url \in {"sso", "both"}

BlankPage == [dom |-> "other", abmelden |-> FALSE, otp |-> FALSE]
NoResult == [success |-> "none", error |-> "", current_classes |-> <<>>]
NoWait == [wait |-> "none", outcome |-> "none"]

\* the state of a scraper object right after __init__
InitLogin ==
    /\ caller = "get_current_classes"
    /\ calls = 0
    /\ login_results = <<>>
    /\ driver = "none"
    /\ page = BlankPage
    /\ current_url = "unset"
    /\ page_source = "unset"
    /\ login_btn = "None"
    /\ user_field = "None"
    /\ pass_field = "None"
    /\ submit_btn = "None"
    /\ token_field = "None"
    /\ totp_secret = FALSE
    /\ login_ret = "none"
    /\ last_wait = NoWait
    /\ exc = ""
    /\ result = NoResult
    /\ log = <<>>

InitExtractLocals ==
    /\ html = <<>>
    /\ start_node = 0
    /\ candidate_links = <<>>
    /\ class_names = <<>>

InitResolveLocals ==
    /\ strategies = <<>>
    /\ found = <<>>
    /\ resolved = 0

(***************************************************************************)
(* extract_current_classes applied to bounded documents.                   *)
(***************************************************************************)
TxtWinter == Text(<<"W", "i", "n", "t", "e", "r", "s", "e", "m", "e", "s", "t", "e", "r", " ", "2", "0", "2", "5", "/", "2", "6">>)
TxtSommer == Text(<<"S", "o", "m", "m", "e", "r", "s", "e", "m", "e", "s", "t", "e", "r", " ", "2", "0", "2", "5">>)
TxtOther == Text(<<"L", "e", "i", "s", "t", "u", "n", "g", "e", "n">>)
TxtWinterRaw == Text(<<"\n", " ", "w", "i", "n", "t", "e", "r", "s", "e", "m", "e", "s", "t", "e", "r", "\t", "2", "0", "2", "5", "/", "2", "6", " ">>)
TxtAlgo == Text(<<"A", "l", "g", "o", "r", "i", "t", "h", "m", "e", "n", " ", "1", "2", "3", "4", "5">>)
TxtRaum == Text(<<"R", "a", "u", "m", " ", "1", "0", "1">>)
TxtGrund == Text(<<"G", "r", "u", "n", "d", "l", "a", "g", "e", "n", " ", "d", "e", "r", " ", "I", "n", "f", "o", "r", "m", "a", "t", "i", "k", " ", "5", "4", "3", "2", "1">>)
TxtNoise == Text(<<"S", "t", "u", "n", "d", "e", "n", "p", "l", "a", "n", " ", "P", "D", "F", " ", "1", "2", "3", "4", "5">>)
TxtShort == Text(<<"1", "2", "3", "4">>)
TxtFive == Text(<<"1", "2", "3", "4", "5">>)
TxtSeven == Text(<<"1", "2", "3", "4", "5", "6", "7">>)
TxtAlgoRaw == Text(<<" ", "A", "l", "g", "o", "r", "i", "t", "h", "m", "e", "n", "\n", " ", "1", "2", "3", "4", "5", " ">>)
TxtAlgoLower == Text(<<"a", "l", "g", "o", "r", "i", "t", "h", "m", "e", "n", " ", "1", "2", "3", "4", "5">>)
TxtMathe == Text(<<"M", "a", "t", "h", "e", " ", "1", "2", "3">>)
TxtLegacy == Text(<<"A", "k", "t", "u", "e", "l", "l", "e", " ", "V", "e", "r", "a", "n", "s", "t", "a", "l", "t", "u", "n", "g", "e", "n", ":">>)

\* texts with a no-break space (U+00A0) and with Arabic-Indic digits
TxtWinterNbsp == Text(<<"W", "i", "n", "t", "e", "r", "s", "e", "m", "e", "s", "t", "e", "r">>) \o <<160>> \o Text(<<"2", "0", "2", "5", "/", "2", "6">>)
TxtAlgoNbsp == Text(<<"A", "l", "g", "o", "r", "i", "t", "h", "m", "e", "n">>) \o <<160>> \o Text(<<"1", "2", "3", "4", "5">>)
TxtKurs == Text(<<"K", "u", "r", "s", " ">>) \o <<1633, 1634, 1635, 1636, 1637>>

TxtAktuelle == Text(<<"A", "k", "t", "u", "e", "l", "l", "e">>)
TxtVeranstaltungen == Text(<<" ", "V", "e", "r", "a", "n", "s", "t", "a", "l", "t", "u", "n", "g", "e", "n">>)

HWinter == Tag("div", TRUE, TxtWinter)
HSommer == Tag("div", TRUE, TxtSommer)
HOther == Tag("div", TRUE, TxtOther)
AAlgo == Tag("a", FALSE, TxtAlgo)

\* nodes of the documents that exercise the section boundaries
BoundaryNodes == {HWinter, HSommer, HOther, AAlgo, Tag("div", FALSE, TxtWinter)}

\* anchors of the documents that exercise the classification of links
LinkTexts == {TxtAlgo, TxtRaum, TxtGrund, TxtNoise, TxtShort, TxtFive, TxtSeven,
              TxtAlgoRaw, TxtAlgoLower, TxtMathe, TxtAlgoNbsp, TxtKurs}
LinkNodes == {Tag("a", FALSE, t) : t \in LinkTexts}

SeqsUpTo(S, n) == UNION {[1..k -> S] : k \in 0..n}

BoundaryDocs == SeqsUpTo(BoundaryNodes, MaxDocLen)
LinkDocs == {<<h>> \o links : h \in {HWinter, Tag("div", TRUE, TxtWinterRaw)},
                              links \in SeqsUpTo(LinkNodes, MaxLinks)}

\* the document of the end-to-end scenario, with and without trailing anchors
ScenarioDoc == <<HWinter, AAlgo, Tag("a", FALSE, TxtRaum), Tag("a", FALSE, TxtGrund), HSommer>>
ScenarioDocs == {ScenarioDoc,
                 ScenarioDoc \o <<Tag("a", FALSE, TxtFive)>>,
                 ScenarioDoc \o <<AAlgo, Tag("a", FALSE, TxtSeven)>>}
\* documents without a term header, with and without the old marker phrase
NoHeaderDocs == {<<>>,
                 <<HOther, AAlgo>>,
                 <<Tag("p", FALSE, TxtLegacy), AAlgo>>,
                 <<HOther, Tag("p", FALSE, OldMarker), AAlgo>>,
                 <<NavigableString(OldMarker), AAlgo>>,
                 <<Tag("b", FALSE, TxtAktuelle), NavigableString(TxtVeranstaltungen)>>,
                 <<Tag("div", FALSE, TxtAktuelle \o Text(<<" ", "V", "e", "r">>)),
                   Nested(Tag("b", FALSE, Text(<<"a", "n", "s", "t", "a", "l">>)), 1),
                   Tag("p", FALSE, Text(<<"t", "u", "n", "g", "e", "n">>))>>}

\* a document is a tree: it begins at depth 0, a node lies at most one tag
\* deeper than the node before it, and nothing lies inside a string
WellFormed(doc) ==
    /\ doc # <<>> => doc[1].depth = 0
    /\ \A j \in 2..Len(doc) :
          /\ doc[j].depth <= doc[j - 1].depth + 1
          /\ doc[j - 1].name = "None" => doc[j].depth <= doc[j - 1].depth

\* documents with tags and strings inside tags
NestedLen == MaxLinks + 1
NestedNodes == {Nested(n, d) : n \in {HWinter, HSommer, AAlgo, NavigableString(TxtRaum)},
                               d \in 0..1}
NestedDocs == {doc \in SeqsUpTo(NestedNodes, NestedLen) : WellFormed(doc)}

\* documents whose term header holds a no-break space
NbspDocs == {<<HSommer, Tag("div", TRUE, TxtWinterNbsp)>> \o links :
                links \in SeqsUpTo({AAlgo, Tag("a", FALSE, TxtAlgoNbsp),
                                    Tag("a", FALSE, TxtKurs)}, MaxLinks)}

Docs == BoundaryDocs \cup LinkDocs \cup ScenarioDocs \cup NoHeaderDocs \cup NbspDocs
            \cup NestedDocs

InitExtract ==
    /\ pc = "extract_called"
    /\ InitLogin
    /\ InitResolveLocals
    /\ html \in Docs
    /\ start_node = 0
    /\ candidate_links = <<>>
    /\ class_names = <<>>

\* extract_current_classes(html), lines 171-261, with its locals
ExtractCurrentClasses ==
    /\ pc = "extract_called"
    /\ pc' = "extract_returned"
    /\ LET start == find_start_node(html)
       IN  /\ start_node' = start
           /\ candidate_links' = IF start = 0 THEN <<>>
                                 ELSE collect_candidate_links(html, start)
    /\ class_names' = extract_current_classes(html)
    /\ UNCHANGED <<html, login_vars, resolve_vars>>

NextExtract == ExtractCurrentClasses

SpecExtract == InitExtract /\ [][NextExtract]_vars

(***************************************************************************)
(* One resolution loop applied to every combination of lookup outcomes.    *)
(***************************************************************************)
InitResolve ==
    /\ pc = "resolve_called"
    /\ InitLogin
    /\ InitExtractLocals
    /\ strategies \in StrategyLists
    /\ found \in LookupResults(strategies)
    /\ resolved = 0

\* the loop runs to its end and touches nothing but its own locals
ResolveStrategies ==
    /\ pc = "resolve_called"
    /\ pc' = "resolve_returned"
    /\ resolved' = resolve(found)
    /\ UNCHANGED <<strategies, found, login_vars, extract_vars>>

NextResolve == ResolveStrategies

SpecResolve == InitResolve /\ [][NextResolve]_vars

(***************************************************************************)
(* The login orchestration: get_current_classes, login and                 *)
(* _inject_sso_credentials.  The page shown by the browser changes only    *)
(* at navigations, clicks, form submissions and while a wait is polling;   *)
(* what it changes to is the portal's and the identity provider's choice.  *)
(* Every driver call may raise, driver.quit() included.                    *)
(***************************************************************************)
\* what login() looks for in the page source it read
Markers(p) == IF p.abmelden THEN {"Abmelden"} ELSE {}

\* what a strategy list can end with on some page: None or an element
Element(position) == IF position = 0 THEN "None" ELSE "element"
Resolvable(strategy_list) ==
    {Element(resolve(lookups)) : lookups \in LookupResults(strategy_list)}

\* an entry of the log: an operation on the session, what it acted on, and
\* whether it went through or raised
Event(op, on, ok) == [op |-> op, on |-> on, ok |-> ok]

Emit(events) == log' = log \o events

\* the locals of login() and of the injector at the start of an invocation
ResetLocals ==
    /\ current_url' = "unset"
    /\ page_source' = "unset"
    /\ login_btn' = "None"
    /\ user_field' = "None"
    /\ pass_field' = "None"
    /\ submit_btn' = "None"
    /\ token_field' = "None"

field_vars == <<user_field, pass_field, submit_btn, token_field>>
local_vars == <<current_url, page_source, login_btn, field_vars>>
caller_vars == <<caller, calls, login_results, totp_secret>>

Init ==
    /\ InitExtractLocals
    /\ InitResolveLocals
    /\ caller \in {"get_current_classes", "direct"}
    /\ totp_secret \in BOOLEAN
    /\ calls = 0
    /\ login_results = <<>>
    /\ page = BlankPage
    /\ current_url = "unset"
    /\ page_source = "unset"
    /\ login_btn = "None"
    /\ user_field = "None"
    /\ pass_field = "None"
    /\ submit_btn = "None"
    /\ token_field = "None"
    /\ login_ret = "none"
    /\ last_wait = NoWait
    /\ exc = ""
    /\ result = NoResult
    /\ log = <<>>
    /\ IF caller = "get_current_classes"
       THEN pc = "gcc_called" /\ driver = "none"
       ELSE pc = "idle" /\ driver = "open"

\* a caller that holds an open session invokes login() (again)
CallLogin ==
    /\ pc = "idle"
    /\ caller = "direct"
    /\ calls < MaxLoginCalls
    /\ calls' = calls + 1
    /\ pc' = "login_get"
    /\ log' = <<>>
    /\ ResetLocals
    /\ UNCHANGED <<caller, login_results, totp_secret, driver, page, login_ret,
                   last_wait, exc, result, extract_vars, resolve_vars>>

\* the return of login() to that caller
ReturnToCaller ==
    /\ pc = "login_returned"
    /\ caller = "direct"
    /\ login_results' = Append(login_results, login_ret)
    /\ pc' = "idle"
    /\ UNCHANGED <<caller, calls, totp_secret, driver, page, local_vars, login_ret,
                   last_wait, exc, result, log, extract_vars, resolve_vars>>

\* lines 280-281: self._setup_driver(), then the call of login()
SetupDriver ==
    /\ pc = "gcc_called"
    /\ \/ /\ driver' = "open"
          /\ pc' = "login_get"
          /\ calls' = calls + 1
          /\ UNCHANGED exc
       \/ /\ driver' \in {"none", "open"}
          /\ pc' = "gcc_except"
          /\ exc' = "driver setup failed"
          /\ UNCHANGED calls
    /\ UNCHANGED <<caller, login_results, totp_secret, page, local_vars, login_ret,
                   last_wait, result, log, extract_vars, resolve_vars>>

\* lines 17-18: self.driver.get(self.lsf_url), outside any try
LoginNavigate ==
    /\ pc = "login_get"
    /\ \/ /\ page' \in Pages
          /\ pc' = "login_wait"
          /\ UNCHANGED <<exc, login_ret>>
       \/ /\ exc' = "navigation failed"
          /\ login_ret' = "raised"
          /\ pc' = "login_returned"
          /\ UNCHANGED page
    /\ UNCHANGED <<caller_vars, driver, local_vars, last_wait, result, log,
                   extract_vars, resolve_vars>>

\* lines 24-27: the session-check wait; whatever it raises is swallowed
LoginCheckSession ==
    /\ pc = "login_wait"
    /\ \E p \in Pages, login_text \in BOOLEAN, err \in BOOLEAN :
          /\ page' = p
          /\ last_wait' = [wait |-> "session_check",
                           outcome |-> IF (OnSso(p.dom) \/ p.abmelden \/ login_text) /\ ~err
                                       THEN "returned" ELSE "raised"]
    /\ pc' = "login_read"
    /\ UNCHANGED <<caller_vars, driver, local_vars, login_ret, exc, result, log,
                   extract_vars, resolve_vars>>

\* a routing without the test for a resumed session
LoginRouteNoResume ==
    /\ pc = "login_read"
    /\ \/ /\ current_url' = page.dom
          /\ page_source' = Markers(page)
          /\ IF OnSso(current_url')
             THEN pc' = "inject_wait" /\ UNCHANGED login_ret
             ELSE pc' = "login_find" /\ UNCHANGED login_ret
          /\ UNCHANGED exc
       \/ /\ exc' = "session lost"
          /\ login_ret' = "raised"
          /\ pc' = "login_returned"
          /\ UNCHANGED <<current_url, page_source>>
    /\ UNCHANGED <<caller_vars, driver, page, login_btn, field_vars, last_wait,
                   result, log, extract_vars, resolve_vars>>

\* lines 29-38: the two reads, outside any try, and the routing on them
LoginRoute ==
    /\ pc = "login_read"
    /\ \/ /\ current_url' = page.dom
          /\ page_source' = Markers(page)
          /\ IF OnPortal(current_url') /\ "Abmelden" \in page_source'
             THEN login_ret' = "True" /\ pc' = "login_returned"
             ELSE IF OnSso(current_url')
                  THEN pc' = "inject_wait" /\ UNCHANGED login_ret
                  ELSE pc' = "login_find" /\ UNCHANGED login_ret
          /\ UNCHANGED exc
       \/ /\ exc' = "session lost"
          /\ login_ret' = "raised"
          /\ pc' = "login_returned"
          /\ UNCHANGED <<current_url, page_source>>
    /\ UNCHANGED <<caller_vars, driver, page, login_btn, field_vars, last_wait,
                   result, log, extract_vars, resolve_vars>>

\* the label variants of line 43, in order: the first that a link carries, 0 for None
FirstLabel(has_link) ==
    IF \E i \in 1..3 : has_link[i]
    THEN CHOOSE i \in 1..3 : has_link[i] /\ \A j \in 1..(i - 1) : ~has_link[j]
    ELSE 0

\* a search that gives up the login when no link is found
LoginClickButtonOrFail ==
    /\ pc = "login_find"
    /\ \E has_link \in [1..3 -> BOOLEAN] :
          /\ login_btn' = Element(FirstLabel(has_link))
          /\ IF login_btn' # "None"
             THEN /\ \/ page' \in Pages /\ Emit(<<Event("click", "login_link", TRUE)>>)
                     \/ UNCHANGED page /\ Emit(<<Event("click", "login_link", FALSE)>>)
                  /\ pc' = "inject_wait"
                  /\ UNCHANGED login_ret
             ELSE /\ UNCHANGED <<page, log>>
                  /\ login_ret' = "False"
                  /\ pc' = "login_returned"
    /\ UNCHANGED <<caller_vars, driver, current_url, page_source, field_vars,
                   last_wait, exc, result, extract_vars, resolve_vars>>

\* lines 40-55: look for the login link, click it if found; nothing escapes
LoginClickButton ==
    /\ pc = "login_find"
    /\ \E has_link \in [1..3 -> BOOLEAN] :
          /\ login_btn' = Element(FirstLabel(has_link))
          /\ IF login_btn' # "None"
             THEN \/ page' \in Pages /\ Emit(<<Event("click", "login_link", TRUE)>>)
                  \/ UNCHANGED page /\ Emit(<<Event("click", "login_link", FALSE)>>)
             ELSE UNCHANGED <<page, log>>
    /\ pc' = "inject_wait"
    /\ UNCHANGED <<caller_vars, driver, current_url, page_source, field_vars,
                   login_ret, last_wait, exc, result, extract_vars, resolve_vars>>

\* a raise inside the try of _inject_sso_credentials
InjectRaise(message) ==
    /\ exc' = message
    /\ pc' = "inject_except"

\* line 80: wait for the SSO or the portal domain
InjectWait ==
    /\ pc = "inject_wait"
    /\ \E p \in Pages, err \in BOOLEAN :
          /\ page' = p
          /\ IF (OnSso(p.dom) \/ OnPortal(p.dom)) /\ ~err
             THEN /\ last_wait' = [wait |-> "sso_or_portal", outcome |-> "returned"]
                  /\ pc' = "inject_check"
                  /\ UNCHANGED exc
             ELSE /\ last_wait' = [wait |-> "sso_or_portal", outcome |-> "raised"]
                  /\ InjectRaise("wait timed out")
    /\ UNCHANGED <<caller_vars, driver, local_vars, login_ret, result, log,
                   extract_vars, resolve_vars>>

\* lines 82-83: already on the portal and logged in
InjectCheckLoggedIn ==
    /\ pc = "inject_check"
    /\ \/ /\ OnPortal(page.dom) /\ page.abmelden
          /\ login_ret' = "True"
          /\ pc' = "login_returned"
          /\ UNCHANGED exc
       \/ /\ ~(OnPortal(page.dom) /\ page.abmelden)
          /\ pc' = "inject_user"
          /\ UNCHANGED <<exc, login_ret>>
       \/ /\ InjectRaise("session lost")
          /\ UNCHANGED login_ret
    /\ UNCHANGED <<caller_vars, driver, page, local_vars, last_wait, result, log,
                   extract_vars, resolve_vars>>

\* _dump_debug_info(prefix), lines 59-73: the capture is attempted, and a
\* failure inside it is logged only
DumpEvents(prefix) == {<<Event("dump", prefix, ok)>> : ok \in BOOLEAN}

\* element.clear(); element.send_keys(...): both go through, or one raises
FillEvents(field) ==
    {<<Event("clear", field, TRUE), Event("send_keys", field, TRUE)>>,
     <<Event("clear", field, TRUE), Event("send_keys", field, FALSE)>>,
     <<Event("clear", field, FALSE)>>}

Raised(events) == \E k \in 1..Len(events) : ~events[k].ok

\* a username step that goes on to the password when no field was found
InjectUsernameLenient ==
    /\ pc = "inject_user"
    /\ \E element \in Resolvable(username_strategies) :
          /\ user_field' = element
          /\ IF user_field' = "None"
             THEN /\ \E dump \in DumpEvents("lsf_login_no_user") : Emit(dump)
                  /\ pc' = "inject_pass" /\ UNCHANGED exc
             ELSE \E events \in FillEvents("username") :
                     /\ Emit(events)
                     /\ IF Raised(events)
                        THEN InjectRaise("element not interactable")
                        ELSE pc' = "inject_pass" /\ UNCHANGED exc
    /\ UNCHANGED <<caller_vars, driver, page, current_url, page_source, login_btn,
                   pass_field, submit_btn, token_field, login_ret, last_wait,
                   result, extract_vars, resolve_vars>>

\* lines 85-100: resolve the username field, clear and fill it
InjectUsername ==
    /\ pc = "inject_user"
    /\ \E element \in Resolvable(username_strategies) :
          /\ user_field' = element
          /\ IF user_field' = "None"
             THEN /\ \E dump \in DumpEvents("lsf_login_no_user") : Emit(dump)
                  /\ InjectRaise("Username field not found")
             ELSE \E events \in FillEvents("username") :
                     /\ Emit(events)
                     /\ IF Raised(events)
                        THEN InjectRaise("element not interactable")
                        ELSE pc' = "inject_pass" /\ UNCHANGED exc
    /\ UNCHANGED <<caller_vars, driver, page, current_url, page_source, login_btn,
                   pass_field, submit_btn, token_field, login_ret, last_wait,
                   result, extract_vars, resolve_vars>>

\* lines 102-116: resolve the password field, clear and fill it
InjectPassword ==
    /\ pc = "inject_pass"
    /\ \E element \in Resolvable(password_strategies) :
          /\ pass_field' = element
          /\ IF pass_field' = "None"
             THEN /\ InjectRaise("Password field not found")
                  /\ UNCHANGED log
             ELSE \E events \in FillEvents("password") :
                     /\ Emit(events)
                     /\ IF Raised(events)
                        THEN InjectRaise("element not interactable")
                        ELSE pc' = "inject_submit" /\ UNCHANGED exc
    /\ UNCHANGED <<caller_vars, driver, page, current_url, page_source, login_btn,
                   user_field, submit_btn, token_field, login_ret, last_wait,
                   result, extract_vars, resolve_vars>>

\* a submit step that submits the form even when a control was clicked
InjectSubmitTwice ==
    /\ pc = "inject_submit"
    /\ \E element \in Resolvable(submit_strategies), ok \in BOOLEAN :
          /\ submit_btn' = element
          /\ IF submit_btn' # "None"
             THEN Emit(<<Event("click", "submit_btn", TRUE), Event("submit", "pass_field", ok)>>)
             ELSE Emit(<<Event("submit", "pass_field", ok)>>)
          /\ IF ok
             THEN page' \in Pages /\ pc' = "inject_2fa_wait" /\ UNCHANGED exc
             ELSE UNCHANGED page /\ InjectRaise("element not interactable")
    /\ UNCHANGED <<caller_vars, driver, current_url, page_source, login_btn,
                   user_field, pass_field, token_field, login_ret, last_wait,
                   result, extract_vars, resolve_vars>>

\* lines 118-131: click the resolved submit control, else submit the form
InjectSubmit ==
    /\ pc = "inject_submit"
    /\ \E element \in Resolvable(submit_strategies), ok \in BOOLEAN :
          /\ submit_btn' = element
          /\ IF submit_btn' # "None"
             THEN Emit(<<Event("click", "submit_btn", ok)>>)
             ELSE Emit(<<Event("submit", "pass_field", ok)>>)
          /\ IF ok
             THEN page' \in Pages /\ pc' = "inject_2fa_wait" /\ UNCHANGED exc
             ELSE UNCHANGED page /\ InjectRaise("element not interactable")
    /\ UNCHANGED <<caller_vars, driver, current_url, page_source, login_btn,
                   user_field, pass_field, token_field, login_ret, last_wait,
                   result, extract_vars, resolve_vars>>

\* a 2FA wait whose timeout reaches the handler of the injector
Inject2FAWaitGating ==
    /\ pc = "inject_2fa_wait"
    /\ \E p \in Pages, err \in BOOLEAN :
          /\ page' = p
          /\ IF (p.otp \/ OnPortal(p.dom)) /\ ~err
             THEN /\ last_wait' = [wait |-> "two_factor", outcome |-> "returned"]
                  /\ pc' = "inject_2fa_token"
                  /\ UNCHANGED exc
             ELSE /\ last_wait' = [wait |-> "two_factor", outcome |-> "raised"]
                  /\ InjectRaise("wait timed out")
    /\ UNCHANGED <<caller_vars, driver, local_vars, login_ret, result, log,
                   extract_vars, resolve_vars>>

\* line 136: wait for a 2FA field or the portal; line 160 swallows a raise
Inject2FAWait ==
    /\ pc = "inject_2fa_wait"
    /\ \E p \in Pages, err \in BOOLEAN :
          /\ page' = p
          /\ IF (p.otp \/ OnPortal(p.dom)) /\ ~err
             THEN /\ last_wait' = [wait |-> "two_factor", outcome |-> "returned"]
                  /\ pc' = "inject_2fa_token"
             ELSE /\ last_wait' = [wait |-> "two_factor", outcome |-> "raised"]
                  /\ pc' = "inject_final"
    /\ UNCHANGED <<caller_vars, driver, local_vars, login_ret, exc, result, log,
                   extract_vars, resolve_vars>>

\* lines 156-159: the proceed control by name, else the submit button
ProceedEvents ==
    {<<Event("click", "proceed", TRUE)>>,
     <<Event("click", "proceed", FALSE), Event("click", "proceed_fallback", TRUE)>>,
     <<Event("click", "proceed", FALSE), Event("click", "proceed_fallback", FALSE)>>}

\* a 2FA step that types a code whether or not a secret is configured
Inject2FATokenAnySecret ==
    /\ pc = "inject_2fa_token"
    /\ pc' = "inject_final"
    /\ \/ \* the page is read, and it asks for no code or no secret is set
          /\ ~(page.otp /\ totp_secret)
          /\ UNCHANGED <<page, token_field, log>>
       \/ \* reading the page, importing pyotp or computing the code raises
          /\ UNCHANGED <<page, token_field, log>>
       \/ /\ page.otp
          /\ \E element \in Resolvable(token_strategies) :
                /\ token_field' = element
                /\ IF token_field' = "None"
                   THEN UNCHANGED <<page, log>>
                   ELSE \/ /\ Emit(<<Event("send_keys", "token", FALSE)>>)
                           /\ UNCHANGED page
                        \/ \E clicks \in ProceedEvents :
                              /\ Emit(<<Event("send_keys", "token", TRUE)>> \o clicks)
                              /\ IF clicks[Len(clicks)].ok
                                 THEN page' \in Pages
                                 ELSE UNCHANGED page
    /\ UNCHANGED <<caller_vars, driver, current_url, page_source, login_btn,
                   user_field, pass_field, submit_btn, login_ret, last_wait, exc,
                   result, extract_vars, resolve_vars>>

\* lines 138-160: type the one-time code and proceed; line 160 swallows a raise
Inject2FAToken ==
    /\ pc = "inject_2fa_token"
    /\ pc' = "inject_final"
    /\ \/ \* the page is read, and it asks for no code or no secret is set
          /\ ~(page.otp /\ totp_secret)
          /\ UNCHANGED <<page, token_field, log>>
       \/ \* reading the page, importing pyotp or computing the code raises
          /\ UNCHANGED <<page, token_field, log>>
       \/ /\ page.otp /\ totp_secret
          /\ \E element \in Resolvable(token_strategies) :
                /\ token_field' = element
                /\ IF token_field' = "None"
                   THEN UNCHANGED <<page, log>>
                   ELSE \/ /\ Emit(<<Event("send_keys", "token", FALSE)>>)
                           /\ UNCHANGED page
                        \/ \E clicks \in ProceedEvents :
                              /\ Emit(<<Event("send_keys", "token", TRUE)>> \o clicks)
                              /\ IF clicks[Len(clicks)].ok
                                 THEN page' \in Pages
                                 ELSE UNCHANGED page
    /\ UNCHANGED <<caller_vars, driver, current_url, page_source, login_btn,
                   user_field, pass_field, submit_btn, login_ret, last_wait, exc,
                   result, extract_vars, resolve_vars>>

\* lines 162-165: the final wait for the portal domain, then return True
InjectFinalWait ==
    /\ pc = "inject_final"
    /\ \E p \in Pages, err \in BOOLEAN :
          /\ page' = p
          /\ IF OnPortal(p.dom) /\ ~err
             THEN /\ last_wait' = [wait |-> "portal", outcome |-> "returned"]
                  /\ login_ret' = "True"
                  /\ pc' = "login_returned"
                  /\ UNCHANGED exc
             ELSE /\ last_wait' = [wait |-> "portal", outcome |-> "raised"]
                  /\ InjectRaise("wait timed out")
                  /\ UNCHANGED login_ret
    /\ UNCHANGED <<caller_vars, driver, local_vars, result, log,
                   extract_vars, resolve_vars>>

\* a handler that returns False without a capture
InjectExceptSilent ==
    /\ pc = "inject_except"
    /\ login_ret' = "False"
    /\ pc' = "login_returned"
    /\ UNCHANGED <<caller_vars, driver, page, local_vars, last_wait, exc, result,
                   log, extract_vars, resolve_vars>>

\* lines 166-169: the handler of the injector: dump, return False
InjectExcept ==
    /\ pc = "inject_except"
    /\ \E dump \in DumpEvents("lsf_injection_fail") : Emit(dump)
    /\ login_ret' = "False"
    /\ pc' = "login_returned"
    /\ UNCHANGED <<caller_vars, driver, page, local_vars, last_wait, exc, result,
                   extract_vars, resolve_vars>>

Failure(message) == [success |-> "false", error |-> message, current_classes |-> <<>>]
Success(names) == [success |-> "true", error |-> "",
                   current_classes |-> [k \in 1..Len(names) |-> [name |-> names[k]]]]

\* a caller that reports the injector's message instead of "Login failed"
AfterLoginWithMessage ==
    /\ pc = "login_returned"
    /\ caller = "get_current_classes"
    /\ IF login_ret = "raised"
       THEN pc' = "gcc_except" /\ UNCHANGED result
       ELSE IF login_ret = "False"
            THEN pc' = "gcc_finally" /\ result' = Failure(exc)
            ELSE pc' = "gcc_ensure_page" /\ UNCHANGED result
    /\ UNCHANGED <<caller_vars, driver, page, local_vars, login_ret, last_wait, exc,
                   log, extract_vars, resolve_vars>>

\* lines 282-283: the use of login()'s outcome in get_current_classes
AfterLogin ==
    /\ pc = "login_returned"
    /\ caller = "get_current_classes"
    /\ IF login_ret = "raised"
       THEN pc' = "gcc_except" /\ UNCHANGED result
       ELSE IF login_ret = "False"
            THEN pc' = "gcc_finally" /\ result' = Failure("Login failed")
            ELSE pc' = "gcc_ensure_page" /\ UNCHANGED result
    /\ UNCHANGED <<caller_vars, driver, page, local_vars, login_ret, last_wait, exc,
                   log, extract_vars, resolve_vars>>

\* lines 285-288: navigate to the lectures page unless the URL shows it
EnsureLecturesPage ==
    /\ pc = "gcc_ensure_page"
    /\ \/ \* "state=wscheck" is in the URL
          /\ pc' = "gcc_fetch"
          /\ UNCHANGED <<page, exc>>
       \/ \* it is not, and the navigation goes through
          /\ page' \in Pages
          /\ pc' = "gcc_fetch"
          /\ UNCHANGED exc
       \/ \* reading the URL or the navigation raises
          /\ pc' = "gcc_except"
          /\ exc' = "navigation failed"
          /\ UNCHANGED page
    /\ UNCHANGED <<caller_vars, driver, local_vars, login_ret, last_wait, result,
                   log, extract_vars, resolve_vars>>

\* the pages the portal may serve
ServedDocs == ScenarioDocs \cup NoHeaderDocs

\* lines 290-294: _fetch_page_via_requests, else the browser's page source
FetchPage ==
    /\ pc = "gcc_fetch"
    /\ \/ /\ html' \in ServedDocs
          /\ pc' = "gcc_extract"
          /\ UNCHANGED exc
       \/ /\ pc' = "gcc_except"
          /\ exc' = "page fetch failed"
          /\ UNCHANGED html
    /\ UNCHANGED <<caller_vars, driver, page, local_vars, login_ret, last_wait,
                   result, log, start_node, candidate_links, class_names, resolve_vars>>

\* lines 296-301: extract the classes and build the result
ExtractAndReturn ==
    /\ pc = "gcc_extract"
    /\ \/ /\ LET start == find_start_node(html)
             IN  /\ start_node' = start
                 /\ candidate_links' = IF start = 0 THEN <<>>
                                       ELSE collect_candidate_links(html, start)
          /\ class_names' = extract_current_classes(html)
          /\ result' = Success(class_names')
          /\ pc' = "gcc_finally"
          /\ UNCHANGED exc
       \/ /\ pc' = "gcc_except"
          /\ exc' = "extraction failed"
          /\ UNCHANGED <<result, start_node, candidate_links, class_names>>
    /\ UNCHANGED <<caller_vars, driver, page, local_vars, login_ret, last_wait,
                   log, html, resolve_vars>>

\* lines 302-304: except Exception as e: the structured failure with str(e)
HandleException ==
    /\ pc = "gcc_except"
    /\ result' = Failure(exc)
    /\ pc' = "gcc_finally"
    /\ UNCHANGED <<caller_vars, driver, page, local_vars, login_ret, last_wait, exc,
                   log, extract_vars, resolve_vars>>

\* a quit at the end of the try body instead of in a finally clause
QuitOnSuccessOnly ==
    /\ pc = "gcc_finally"
    /\ IF driver = "open" /\ result.success = "true"
       THEN driver' = "quit" /\ Emit(<<Event("quit", "driver", TRUE)>>)
       ELSE UNCHANGED <<driver, log>>
    /\ pc' = "gcc_returned"
    /\ UNCHANGED <<caller_vars, page, local_vars, login_ret, last_wait, exc, result,
                   extract_vars, resolve_vars>>

\* lines 305-307: finally: quit the driver if there is one; then the return,
\* unless quit() raised
Finally ==
    /\ pc = "gcc_finally"
    /\ IF driver = "open"
       THEN \/ /\ driver' = "quit"
               /\ Emit(<<Event("quit", "driver", TRUE)>>)
               /\ pc' = "gcc_returned"
            \/ \* quit() raises: the exception replaces the pending return
               /\ Emit(<<Event("quit", "driver", FALSE)>>)
               /\ pc' = "gcc_escaped"
               /\ UNCHANGED driver
       ELSE UNCHANGED <<driver, log>> /\ pc' = "gcc_returned"
    /\ UNCHANGED <<caller_vars, page, local_vars, login_ret, last_wait, exc, result,
                   extract_vars, resolve_vars>>

Next ==
    \/ CallLogin
    \/ ReturnToCaller
    \/ SetupDriver
    \/ LoginNavigate
    \/ LoginCheckSession
    \/ LoginRoute
    \/ LoginClickButton
    \/ InjectWait
    \/ InjectCheckLoggedIn
    \/ InjectUsername
    \/ InjectPassword
    \/ InjectSubmit
    \/ Inject2FAWait
    \/ Inject2FAToken
    \/ InjectFinalWait
    \/ InjectExcept
    \/ AfterLogin
    \/ EnsureLecturesPage
    \/ FetchPage
    \/ ExtractAndReturn
    \/ HandleException
    \/ Finally

Spec == Init /\ [][Next]_vars

(***************************************************************************)
(* Properties of the login orchestration.                                  *)
(***************************************************************************)
HasEvent(op, on, ok) == \E k \in 1..Len(log) : log[k] = Event(op, on, ok)

\* C1: when get_current_classes has returned and a driver had been created,
\* the driver has been quit, and the quit was the last thing done to it; and
\* when no result is returned because quit() raised, quit() had been called.
C1_SessionReleased ==
    /\ (pc = "gcc_returned" /\ driver # "none") =>
          /\ driver = "quit"
          /\ log # <<>>
          /\ log[Len(log)] = Event("quit", "driver", TRUE)
    /\ pc = "gcc_escaped" =>
          /\ log # <<>>
          /\ log[Len(log)] = Event("quit", "driver", FALSE)

\* the return after a failed login, with the session released
C1_Witness ==
    /\ pc = "gcc_returned"
    /\ login_ret = "False"
    /\ result.success = "false"
    /\ driver = "quit"

\* C2 as stated: get_current_classes never lets an exception reach its
\* caller, and always returns a structured result: success = false with an
\* error message whenever a step failed (driver setup, navigation, session
\* read, credential injection, fallback navigation, page fetch, extraction),
\* and otherwise success = true with the list of the extracted names.
C2_StructuredResult ==
    /\ pc # "gcc_escaped"
    /\ pc = "gcc_returned" =>
          /\ result.success \in {"true", "false"}
          /\ (exc # "" \/ login_ret \in {"False", "raised"}) <=> result.success = "false"
          /\ result.success = "false" => result.error # ""
          /\ result.success = "true" =>
                result.current_classes =
                    [k \in 1..Len(class_names) |-> [name |-> class_names[k]]]

PasswordNotFound ==
    /\ pc = "gcc_returned"
    /\ HasEvent("send_keys", "username", TRUE)
    /\ pass_field = "None"
    /\ exc = "Password field not found"

\* C3 as stated: if the username field was filled and no password strategy
\* resolves a visible element, the top-level result is
\* {success: false, error: "Password field not found"} and a debug capture
\* is attempted.
C3_AsStated ==
    PasswordNotFound =>
        /\ result = Failure("Password field not found")
        /\ \E ok \in BOOLEAN : HasEvent("dump", "lsf_injection_fail", ok)

\* C3 amended: in that case the top-level result is
\* {success: false, error: "Login failed"}, and a debug capture is attempted
\* after the username was typed.
C3_PasswordNotFound ==
    PasswordNotFound =>
        /\ result = Failure("Login failed")
        /\ \E i, j \in 1..Len(log) :
              /\ i < j
              /\ log[i] = Event("send_keys", "username", TRUE)
              /\ log[j].op = "dump" /\ log[j].on = "lsf_injection_fail"

C3_Witness ==
    /\ PasswordNotFound
    /\ result.success = "false"
    /\ driver = "quit"

Resumed == OnPortal(current_url) /\ "Abmelden" \in page_source

\* C4: every invocation of login() that, after its navigation, reads a URL
\* on the portal domain and a page source with "Abmelden" returns True, and
\* between its call and its return nothing was clicked, cleared, typed or
\* submitted; this holds for the first and for every repeated invocation.
C4_ResumedLoginIdempotent ==
    (pc = "login_returned" /\ Resumed) =>
        /\ login_ret = "True"
        /\ log = <<>>

\* the second of two invocations in a row returns, both on a resumed session
C4_Witness ==
    /\ caller = "direct"
    /\ calls = 2
    /\ login_results = <<"True">>
    /\ pc = "login_returned"
    /\ Resumed
    /\ login_ret = "True"
    /\ log = <<>>

\* C5 as stated: login() never raises; whatever goes wrong in its sequence
\* surfaces as the return value False.
C5_LoginNeverRaises == login_ret # "raised"

Visible(k) == found[k] = "visible"

\* C6: a resolution loop ends with the element of the first strategy, in
\* list order, whose lookup succeeded and whose element is displayed; missing
\* locators, hidden elements and errors of is_displayed are passed over; with
\* no displayed element it ends with None; and it changes nothing on the
\* session.
C6_FirstVisibleStrategy ==
    pc = "resolve_returned" =>
        /\ resolved \in 0..Len(strategies)
        /\ resolved # 0 => Visible(resolved) /\ \A j \in 1..(resolved - 1) : ~Visible(j)
        /\ resolved = 0 => \A j \in 1..Len(strategies) : ~Visible(j)
        /\ log = <<>>
        /\ page = BlankPage

\* a missing locator, an is_displayed error and a hidden element come before
\* the displayed one
C6_Witness ==
    /\ pc = "resolve_returned"
    /\ strategies = username_strategies
    /\ found = <<"missing", "error", "hidden", "visible">>
    /\ resolved = 4

(***************************************************************************)
(* Properties of extract_current_classes.                                  *)
(***************************************************************************)
Range(s) == {s[k] : k \in 1..Len(s)}

\* the anchors strictly after position start with no header div in between
AnchorsOfSection(doc, start) ==
    {i \in 1..Len(doc) :
        /\ i > start
        /\ doc[i].name = "a"
        /\ \A h \in (start + 1)..i : ~IsHeader(doc[h])}

\* C7: when a header matched, candidate_links holds exactly the anchors that
\* lie strictly after the matched header and before the next header div (or
\* the document end), in document order, and every returned name is the
\* normalized text of one of them.
C7_SectionBoundary ==
    (pc = "extract_returned" /\ start_node # 0) =>
        /\ Range(candidate_links) = AnchorsOfSection(html, start_node)
        /\ \A k \in 1..(Len(candidate_links) - 1) :
               candidate_links[k] < candidate_links[k + 1]
        /\ \A n \in Range(class_names) :
               \E i \in AnchorsOfSection(html, start_node) :
                   normalize(get_text(html, i)) = n

\* three headers, the second one matched, anchors before it, inside its
\* section and after the third header
C7_Witness ==
    /\ pc = "extract_returned"
    /\ Cardinality(all_headers(html)) = 3
    /\ start_node \in all_headers(html)
    /\ \E h1, h3 \in all_headers(html) : h1 < start_node /\ start_node < h3
    /\ \E a, b, c \in 1..Len(html) :
          /\ html[a].name = "a" /\ a < start_node
          /\ html[b].name = "a" /\ b \in Range(candidate_links)
          /\ html[c].name = "a" /\ \E h3 \in all_headers(html) : start_node < h3 /\ h3 < c
    /\ Len(class_names) = 1

\* the normalized texts of the candidate links, in order
CandidateTexts == [k \in 1..Len(candidate_links) |-> normalize(get_text(html, candidate_links[k]))]

FirstOccurrence(texts, n) ==
    CHOOSE k \in 1..Len(texts) : texts[k] = n /\ \A m \in 1..(k - 1) : texts[m] # n

\* C8: the returned list has no two equal entries, and its entries stand in
\* the order in which their texts first occur among the candidate links.
C8_UniqueInFirstSeenOrder ==
    pc = "extract_returned" =>
        /\ \A i, j \in 1..Len(class_names) : i # j => class_names[i] # class_names[j]
        /\ \A i \in 1..Len(class_names) : class_names[i] \in Range(CandidateTexts)
        /\ \A i, j \in 1..Len(class_names) :
               i < j => FirstOccurrence(CandidateTexts, class_names[i])
                          < FirstOccurrence(CandidateTexts, class_names[j])

\* an accepted text occurs twice among the candidates, between two others
C8_Witness ==
    /\ pc = "extract_returned"
    /\ Len(class_names) = 2
    /\ Len(candidate_links) = 3
    /\ CandidateTexts[1] = CandidateTexts[3]
    /\ class_names = <<CandidateTexts[1], CandidateTexts[2]>>

\* C9: a link whose normalized text contains a noise token, compared without
\* case, is never returned, whatever digits it holds; neither is a link whose
\* normalized text has fewer than 5 characters.
C9_NoiseAndShortExcluded ==
    pc = "extract_returned" =>
        \A i \in 1..Len(html) :
            LET text == normalize(get_text(html, i))
            IN  (html[i].name = "a" /\ (IsJunk(text) \/ Len(text) < 5))
                    => text \notin Range(class_names)

\* the candidates hold "Stundenplan PDF 12345" and the purely numeric "1234"
C9_Witness ==
    /\ pc = "extract_returned"
    /\ TxtNoise \in Range(CandidateTexts)
    /\ TxtShort \in Range(CandidateTexts)
    /\ class_names # <<>>

\* C10: for the scenario document (header "Wintersemester 2025/26", anchors
\* "Algorithmen 12345", "Raum 101", "Grundlagen der Informatik 54321", header
\* "Sommersemester 2025", with or without anchors after it) the result is
\* exactly <<"Algorithmen 12345", "Grundlagen der Informatik 54321">>.
C10_EndToEnd ==
    (pc = "extract_returned" /\ html \in ScenarioDocs) =>
        class_names = <<TxtAlgo, TxtGrund>>

\* the scenario document followed by further anchors has been extracted
C10_Witness ==
    /\ pc = "extract_returned"
    /\ html \in ScenarioDocs
    /\ Len(html) > Len(ScenarioDoc)
    /\ start_node = 1
    /\ candidate_links = <<2, 3, 4>>

(***************************************************************************)
(* Further properties of the extraction and of the login orchestration.    *)
(***************************************************************************)
NoTermHeader(doc) ==
    \A i \in 1..Len(doc) :
        IsHeader(doc[i]) =>
            /\ ~SearchExactTerm(normalize(get_text(doc, i)))
            /\ ~SearchGenericTerm(normalize(get_text(doc, i)))

\* C11: when the login succeeded, no later step raised and no header div of
\* the served document matches a term pattern, get_current_classes returns
\* success = true with an empty current_classes list, whether or not the
\* document holds the phrase "Aktuelle Veranstaltungen".
C11_NoHeaderEmptyResult ==
    (pc = "gcc_returned" /\ login_ret = "True" /\ exc = "" /\ NoTermHeader(html)) =>
        /\ class_names = <<>>
        /\ result = Success(<<>>)

\* the served document has the old marker phrase, an anchor that would pass
\* the classifier, and no term header
C11_Witness ==
    /\ pc = "gcc_returned"
    /\ login_ret = "True"
    /\ html = <<Tag("p", FALSE, TxtLegacy), AAlgo>>
    /\ Contains(get_text(html, 0), OldMarker)
    /\ result = Success(<<>>)

\* a step of login() from the position at, taken by an invocation
Leaves(at) == pc = at /\ pc' # at

\* the routing of lines 32-38 on the values just read
RoutesOnRead ==
    Leaves("login_read") =>
        \/ /\ login_ret' = "raised"
           /\ pc' = "login_returned"
        \/ /\ OnPortal(current_url') /\ "Abmelden" \in page_source'
           /\ pc' = "login_returned"
           /\ login_ret' = "True"
           /\ log' = log
        \/ /\ ~(OnPortal(current_url') /\ "Abmelden" \in page_source')
           /\ OnSso(current_url')
           /\ pc' = "inject_wait"
           /\ login_btn' = "None"
           /\ log' = log
        \/ /\ ~(OnPortal(current_url') /\ "Abmelden" \in page_source')
           /\ ~OnSso(current_url')
           /\ pc' = "login_find"
           /\ log' = log

\* the search for the login link always ends in the injector, with at most
\* one click, and with none when no link was found
SearchEndsInInjector ==
    Leaves("login_find") =>
        /\ pc' = "inject_wait"
        /\ login_ret' = login_ret
        /\ \/ log' = log
           \/ /\ login_btn' = "element"
              /\ \E ok \in BOOLEAN : log' = Append(log, Event("click", "login_link", ok))

\* the injector is entered from the routing or the search only, and what
\* login() returns after it is the injector's value: False exactly when the
\* injector's handler ran
InjectorDecides ==
    /\ (pc # "inject_wait" /\ pc' = "inject_wait") => pc \in {"login_read", "login_find"}
    /\ (pc \in {"inject_check", "inject_final"} /\ pc' = "login_returned") => login_ret' = "True"
    /\ Leaves("inject_except") => (pc' = "login_returned" /\ login_ret' = "False")
    /\ (pc' = "login_returned" /\ pc # pc' /\ login_ret' = "False") => pc = "inject_except"

\* C12: after the session check, a portal URL with the logout marker ends
\* login() with True and without entering the injector; an SSO URL enters
\* the injector without any search or click; any other state searches for
\* the login link, clicks at most one, and enters the injector whether the
\* link was found, not found, or the click raised; and in the two latter
\* cases login() returns what the injector returns.
C12_LoginRouting ==
    [][RoutesOnRead /\ SearchEndsInInjector /\ InjectorDecides]_vars

\* the injector has been entered after the click on the login link raised
C12_Witness ==
    /\ pc = "inject_wait"
    /\ current_url = "lsf"
    /\ page_source = {}
    /\ login_btn = "element"
    /\ log = <<Event("click", "login_link", FALSE)>>

TimedOut(name) == last_wait' = [wait |-> name, outcome |-> "raised"]

\* the session-check wait and the 2FA wait: a raise changes nothing and the
\* flow goes on to the next step
ToleratedWaits ==
    /\ Leaves("login_wait") =>
          /\ last_wait'.wait = "session_check"
          /\ pc' = "login_read"
          /\ login_ret' = login_ret /\ exc' = exc /\ log' = log
    /\ (Leaves("inject_2fa_wait") /\ TimedOut("two_factor")) =>
          /\ pc' = "inject_final"
          /\ login_ret' = login_ret /\ exc' = exc /\ log' = log
    /\ (Leaves("inject_2fa_wait") /\ ~(page'.otp \/ OnPortal(page'.dom))) => TimedOut("two_factor")

\* the injector's first and last wait: a raise goes to the handler, which
\* returns False
GatingWaits ==
    /\ (Leaves("inject_wait") /\ TimedOut("sso_or_portal")) =>
          (pc' = "inject_except" /\ exc' # "")
    /\ (Leaves("inject_wait") /\ ~(OnSso(page'.dom) \/ OnPortal(page'.dom))) => TimedOut("sso_or_portal")
    /\ (Leaves("inject_final") /\ TimedOut("portal")) =>
          (pc' = "inject_except" /\ exc' # "")
    /\ (Leaves("inject_final") /\ ~OnPortal(page'.dom)) => TimedOut("portal")
    /\ Leaves("inject_except") => (pc' = "login_returned" /\ login_ret' = "False")

\* C13: a timeout of the session-check wait or of the 2FA wait is swallowed
\* and the flow continues with the next step, whereas a timeout of the
\* injector's wait for the SSO or portal domain, or of its final wait for
\* the portal domain, ends the login with False.
C13_TimeoutPolicy == [][ToleratedWaits /\ GatingWaits]_vars

\* the 2FA wait has timed out and the injector stands at its final wait,
\* with no exception pending
C13_Witness ==
    /\ pc = "inject_final"
    /\ calls = 1
    /\ last_wait = [wait |-> "two_factor", outcome |-> "raised"]
    /\ ~page.otp /\ page.dom = "sso"
    /\ exc = ""
    /\ login_ret = "none"

TwoFactorTargets == {"token", "proceed", "proceed_fallback"}

\* the entries that a step adds to the log
Added == [k \in 1..(Len(log') - Len(log)) |-> log'[Len(log) + k]]

\* lines 138-160: what the step after the 2FA wait may do
TokenStep ==
    Leaves("inject_2fa_token") =>
        /\ pc' = "inject_final"
        /\ exc' = exc /\ login_ret' = login_ret
        /\ log' # log =>
              /\ page.otp /\ totp_secret /\ token_field' = "element"
              /\ Added[1].op = "send_keys" /\ Added[1].on = "token"
              /\ \A k \in 2..Len(Added) : Added[k].op = "click" /\ Added[k - 1].ok # (Added[k].on = "proceed_fallback")
        /\ (page.otp /\ ~totp_secret) => (log' = log /\ page' = page)

\* no other step types a code or activates a 2FA proceed control
OnlyTokenStepTypes ==
    (pc # "inject_2fa_token" /\ Len(log') > Len(log)) =>
        \A k \in 1..Len(Added) : Added[k].on \notin TwoFactorTargets

\* lines 162-165: the final wait alone decides after the 2FA step
FinalWaitDecides ==
    Leaves("inject_final") =>
        \/ pc' = "login_returned" /\ login_ret' = "True" /\ OnPortal(page'.dom)
        \/ pc' = "inject_except" /\ login_ret' = login_ret

\* C14: a one-time code is typed only in the step after the 2FA wait, and
\* only when the page shows an OTP/token indicator, a secret is configured
\* and a token field was resolved; with an indicator and no secret nothing is
\* typed or clicked; whatever happens in that step, nothing is raised and the
\* flow goes on to the final wait, where the login succeeds only if the
\* portal domain is reached.
C14_TwoFactor == [][TokenStep /\ OnlyTokenStepTypes /\ FinalWaitDecides]_vars

\* the page asks for a code, no secret is configured, and the injector has
\* passed the 2FA step without an entry in the log after the submit
C14_Witness ==
    /\ pc = "inject_final"
    /\ page.otp /\ page.dom = "sso"
    /\ ~totp_secret
    /\ last_wait = [wait |-> "two_factor", outcome |-> "returned"]
    /\ log # <<>>
    /\ log[Len(log)] = Event("click", "submit_btn", TRUE)

\* the positions of the log at which the credentials were submitted
SubmitActions ==
    {k \in 1..Len(log) :
        \/ log[k].op = "click" /\ log[k].on = "submit_btn"
        \/ log[k].op = "submit" /\ log[k].on = "pass_field"}

\* C15: within one injection the credentials are submitted at most once,
\* directly after the password was typed, and exactly once as soon as the
\* injector has passed that step: by a click if the submit strategy list
\* resolved a control, and only otherwise by submitting the form of the
\* password field; the 2FA step is reached only after a submit that went
\* through.
C15_OneSubmitAction ==
    /\ Cardinality(SubmitActions) <= 1
    /\ \A k \in SubmitActions :
          /\ k > 1
          /\ log[k - 1] = Event("send_keys", "password", TRUE)
          /\ log[k].op = "click" <=> submit_btn = "element"
          /\ log[k].op = "submit" <=> submit_btn = "None"
    /\ (HasEvent("send_keys", "password", TRUE) /\ pc # "inject_submit") =>
          Cardinality(SubmitActions) = 1
    /\ pc \in {"inject_2fa_wait", "inject_2fa_token", "inject_final"} =>
          \E k \in SubmitActions : log[k].ok

\* no submit control was resolved and the form was submitted instead
C15_Witness ==
    /\ pc = "inject_2fa_wait"
    /\ submit_btn = "None"
    /\ log[Len(log)] = Event("submit", "pass_field", TRUE)
    /\ Cardinality(SubmitActions) = 1

Least(S) == CHOOSE i \in S : \A j \in S : i <= j

ExactHeaders(doc) ==
    {i \in 1..Len(doc) : IsHeader(doc[i]) /\ SearchExactTerm(normalize(get_text(doc, i)))}
GenericHeaders(doc) ==
    {i \in 1..Len(doc) : IsHeader(doc[i]) /\ SearchGenericTerm(normalize(get_text(doc, i)))}

\* C16: the start node is the first header in document order that matches
\* the exact term "Wintersemester 2025/26", even behind headers that match
\* the generic term pattern only; without such a header it is the first one
\* that matches the generic pattern; without any, there is no start node.
C16_PatternPriority ==
    pc = "extract_returned" =>
        start_node = IF ExactHeaders(html) # {} THEN Least(ExactHeaders(html))
                     ELSE IF GenericHeaders(html) # {} THEN Least(GenericHeaders(html))
                     ELSE 0

\* a header that matches the generic pattern only stands before two headers
\* with the exact term, and the first of these two is the start node
C16_Witness ==
    /\ pc = "extract_returned"
    /\ Len(html) >= 4
    /\ html[1] = HSommer
    /\ html[2] = HOther
    /\ ExactHeaders(html) = {3, 4}
    /\ start_node = 3

Dumps == {k \in 1..Len(log) : log[k].op = "dump"}

InsideLogin ==
    pc \in {"login_get", "login_wait", "login_read", "login_find", "inject_wait",
            "inject_check", "inject_user", "inject_pass", "inject_submit",
            "inject_2fa_wait", "inject_2fa_token", "inject_final"}

\* C17: when login() returns False, the last thing done was a capture with
\* the prefix of the injector's handler, whether the capture itself went
\* through or failed; when it returns True, resumed or after an injection,
\* and at every step before the handler, tolerated timeouts included, no
\* capture was attempted, but for the one of the missing username field,
\* which is followed by the handler.
C17_DebugArtifacts ==
    /\ (pc = "login_returned" /\ login_ret = "False") =>
          /\ log # <<>>
          /\ log[Len(log)].op = "dump" /\ log[Len(log)].on = "lsf_injection_fail"
    /\ (pc = "login_returned" /\ login_ret = "True") => Dumps = {}
    /\ InsideLogin => Dumps = {}
    /\ (pc = "inject_except" /\ Dumps # {}) =>
          /\ Dumps = {Len(log)}
          /\ log[Len(log)].on = "lsf_login_no_user"
          /\ exc = "Username field not found"
          /\ user_field = "None"
    /\ (pc = "inject_except" /\ exc = "Username field not found") => Dumps # {}

\* the capture in the handler failed after the final wait had timed out, and
\* login() returned False all the same
C17_Witness ==
    /\ pc = "login_returned"
    /\ login_ret = "False"
    /\ last_wait = [wait |-> "portal", outcome |-> "raised"]
    /\ log[Len(log)] = Event("dump", "lsf_injection_fail", FALSE)
    /\ Cardinality(Dumps) = 1

\* a maximal run of digits of length 4, 5 or 6 starts at position i
IdTokenAt(text, i) ==
    \E n \in 4..6 :
        /\ DigitsAt(text, i, n)
        /\ (i = 1 \/ text[i - 1] \notin DigitChars)
        /\ (i + n > Len(text) \/ text[i + n] \notin DigitChars)

HasIdToken(text) == \E i \in 1..Len(text) : IdTokenAt(text, i)

\* C18 as stated: a candidate link is returned as a class entry if and only
\* if its normalized text holds a numeric token of 4 to 6 digits, holds no
\* noise token and has at least 5 characters; a text whose digit runs are all
\* shorter than 4 or all longer than 6 digits is not a class entry.
C18_ClassEntryIffIdToken ==
    pc = "extract_returned" =>
        \A k \in 1..Len(candidate_links) :
            LET text == CandidateTexts[k]
            IN  text \in Range(class_names)
                    <=> (HasIdToken(text) /\ ~IsJunk(text) /\ Len(text) >= 5)

\* C19 as stated: whenever login() returns True, the session is
\* authenticated: the URL is on the portal domain and the page shows the
\* logout marker.
C19_SuccessMeansAuthenticated ==
    (pc = "login_returned" /\ login_ret = "True") =>
        (OnPortal(page.dom) /\ page.abmelden)

\* positions of the log that precede position k
Before(k) == 1..(k - 1)

Typed(field) == {k \in 1..Len(log) : log[k] = Event("send_keys", field, TRUE)}

Cleared(field) == {k \in 1..Len(log) : log[k] = Event("clear", field, TRUE)}

\* the order of the entries of the log of one injection
MutationOrder ==
    /\ \A k \in 1..Len(log) :
          log[k].on = "password" =>
              \E u \in Typed("username") \cap Before(k) :
                  Cleared("username") \cap Before(u) # {}
    /\ \A k \in SubmitActions :
          \E p \in Typed("password") \cap Before(k) :
              /\ Cleared("password") \cap Before(p) # {}
              /\ Typed("username") \cap Before(p) # {}
    /\ \A k \in 1..Len(log) :
          log[k].on \in TwoFactorTargets =>
              \E s \in SubmitActions \cap Before(k) : log[s].ok
    /\ \A k \in Dumps : \A j \in (k + 1)..Len(log) : log[j].op \in {"dump", "quit"}
    /\ user_field = "None" =>
          \A k \in 1..Len(log) :
              /\ log[k].on \notin {"password", "pass_field", "submit_btn"}
              /\ log[k].on \notin TwoFactorTargets

\* once the injector has left its last step, only dumps and the quit follow
DecidedMeansDone ==
    (pc \notin {"login_find", "inject_user", "inject_pass", "inject_submit",
                "inject_2fa_token"}) =>
        \A k \in DOMAIN Added : Added[k].op \in {"dump", "quit"}

\* C20: within one injection the username is cleared and typed before the
\* password field is touched, the submit action comes only after both fields
\* were typed, a one-time code only after a submit action that went through,
\* nothing is filled or activated once the outcome is decided, and an
\* unresolved username field means no password, no submit and no code.
C20_MutationOrder == []MutationOrder /\ [][DecidedMeansDone]_vars

C20_Witness ==
    /\ pc = "login_returned" /\ login_ret = "True"
    /\ log = <<Event("clear", "username", TRUE), Event("send_keys", "username", TRUE),
               Event("clear", "password", TRUE), Event("send_keys", "password", TRUE),
               Event("click", "submit_btn", TRUE), Event("send_keys", "token", TRUE),
               Event("click", "proceed", TRUE)>>

====
